---- MODULE Spec2Model ----
(***************************************************************************)
(* Crawl engine of sitemap-generator (services/crawler.py): the scheduler  *)
(* crawl(), the per-URL task _crawl_url(), _enqueue, referrer tracking and *)
(* the statistics, on a single cooperative event loop.  One action is one  *)
(* run of a coroutine from a suspension point (await) to the next.         *)
(***************************************************************************)
EXTENDS Integers, Sequences, FiniteSets, TLC

VARIABLES
    cfg,                \* constructor arguments of Crawler
    rules,              \* RobotsChecker._rules
    seed_urls,          \* Crawler._seed_urls
    results,            \* Crawler._results : canonical url -> CrawlResult
    queue,              \* Crawler._queue   : deque of (url, depth, parent)
    seen,               \* Crawler._seen
    pending_referrers,  \* Crawler._pending_referrers
    stats,              \* Crawler._stats
    cancelled,          \* Crawler._cancelled
    tasks,              \* the tasks created by crawl(), in creation order
    active_tasks,       \* crawl(): active_tasks (indices into tasks)
    semaphore,          \* crawl(): free slots of asyncio.Semaphore
    main,               \* position of the coroutine crawl()
    emitted,            \* the statuses handed to on_result, per url, in order
    enq_count,          \* history: how often a url was appended to the queue
    fetch_calls,        \* history: how many fetch attempts were started per url
    failed,             \* history: urls whose last fetch attempt raised
    first_found,        \* history: how each url was first discovered
    site,               \* the web site crawled: which replies a url can give
    writer_results,     \* SitemapWriter._results: the list handed to the writer
    files,              \* the files written: path -> document
    written,            \* what SitemapWriter.write returned (NotWritten before)
    web,                \* the sitemap documents of the site: address -> answer
    discovery,          \* what discover_sitemap returned and which requests it sent
    loader,             \* position and call stack of load_sitemap_urls
    sitemap_urls,       \* load_sitemap_urls: the set urls
    fetches,            \* history: the requests of _load_sitemap_recursive
    official_sitemap_urls,  \* SitemapGeneratorApp._official_sitemap_urls
    clipboard,          \* the two lists action_sitemap_diff copied
    report              \* the JSON error report _do_save_error_report wrote

\* the state around the crawler: sitemap writer, sitemap reader and the app
writer_vars == <<writer_results, files, written>>

\* no call of SitemapWriter.write yet: no list of paths
NotWritten == << <<>> >>

reader_vars == <<web, discovery, loader, sitemap_urls, fetches, official_sitemap_urls>>

app_vars == <<writer_vars, reader_vars, clipboard, report>>

crawler_vars == <<cfg, rules, seed_urls, results, queue, seen, pending_referrers,
                  stats, cancelled, tasks, active_tasks, semaphore, main, emitted,
                  enq_count, fetch_calls, failed, first_found, site>>

vars == <<cfg, rules, seed_urls, results, queue, seen, pending_referrers, stats,
          cancelled, tasks, active_tasks, semaphore, main, emitted, enq_count,
          fetch_calls, failed, first_found, site, app_vars>>

----------------------------------------------------------------------------
(* Bounds of the model *)

MaxRetries == 1         \* largest configured max_retries
MaxConcurrency == 2     \* largest configured concurrency
MaxDepthCfg == 1        \* largest configured max_depth
StarPages == 52         \* pages of the site whose pages all link to one url
MaxResults == 2         \* longest list of single results handed to the writer
MaxParts == 2           \* most full part files the writer gets to fill

----------------------------------------------------------------------------
(* URLs.  A URL string is held as a record of its parts; "path" is the     *)
(* text between the host and the "?", a sequence of tokens (<<>> being the *)
(* empty path and <<"/">> the root) that may end in ";" and parameters;    *)
(* "query" is the text after the "?", a sequence of tokens too.            *)

Url(scheme, netloc, path, fragment) ==
    [scheme |-> scheme, netloc |-> netloc, path |-> path, query |-> <<>>,
     fragment |-> fragment]

\* the same url with the query q
WithQuery(url, q) == [url EXCEPT !.query = q]

NoUrl == Url("", "", <<>>, "")

\* str.lower() on the tokens of the model
Lower(s) ==
    CASE s = "HTTPS"  -> "https"
      [] s = "HTTP"   -> "http"
      [] s = "A.TEST" -> "a.test"
      [] s = ".PDF"   -> ".pdf"
      [] s = "Text/HTML" -> "text/html"
      [] OTHER        -> s

\* urllib.parse.unquote on one token
unquote(s) ==
    CASE s = "%61"     -> "a"
      [] s = "%C3%A4"  -> "ae-umlaut"
      [] s = "%25"     -> "%"
      [] s = "%2561"   -> "%61"
      [] s = "%3B"     -> ";"
      [] s = "%3F"     -> "?"
      [] OTHER         -> s

\* urllib.parse.quote(..., safe="/:@!$&'*+,;=-._~") on one token
quote(s) ==
    CASE s = "ae-umlaut" -> "%C3%A4"
      [] s = "%"         -> "%25"
      [] s = "%61"       -> "%2561"
      [] s = "?"         -> "%3F"
      [] OTHER           -> s

\* urllib.parse.quote(..., safe="/:@!$&'*+,;=-._~?=") on one token
quote_query(s) == IF s = "?" THEN s ELSE quote(s)

\* the smallest and the largest of a set of positions, 0 if there is none
first_of(S) == IF S = {} THEN 0 ELSE CHOOSE i \in S : \A j \in S : i <= j
last_of(S) == IF S = {} THEN 0 ELSE CHOOSE i \in S : \A j \in S : j <= i

\* the positions of ";" in the last segment of a path, which starts at from
semis_from(text, from) == {i \in from..Len(text) : text[i] = ";"}

\* path and params, params starting after the ";" at position first
split_at(text, first) ==
    IF first = 0 THEN [path |-> text, params |-> <<>>]
    ELSE [path |-> SubSeq(text, 1, first - 1),
          params |-> SubSeq(text, first + 1, Len(text))]

\* urllib.parse._splitparams, as urlparse applies it to the text before the
\* "?": the parameters start at the first ";" of the last path segment
split_params(text) ==
    split_at(text, first_of(semis_from(text,
                 last_of({i \in 1..Len(text) : text[i] = "/"}) + 1)))

\* urlparse(url).path
url_path(url) == split_params(url.path).path

\* urlunparse on path and params: an empty params part leaves no ";"
join_params(path, params) ==
    IF params = <<>> THEN path ELSE path \o <<";">> \o params

\* an empty path becomes "/"
or_root(path) == IF path = <<>> THEN <<"/">> ELSE path

\* the parts of a parsed url, normalized and put together again
unparse_normalized(url, parsed) ==
    [scheme |-> Lower(url.scheme), netloc |-> Lower(url.netloc),
     path |-> join_params(or_root([i \in 1..Len(parsed.path) |->
                                      quote(unquote(parsed.path[i]))]),
                          parsed.params),
     query |-> [i \in 1..Len(url.query) |-> quote_query(unquote(url.query[i]))],
     fragment |-> ""]

\* Crawler._normalize_url: the string is parsed, its parts are normalized and
\* it is put together again
normalize_url(url) == unparse_normalized(url, split_params(url.path))

start_url == normalize_url(Url("https", "A.TEST", <<>>, ""))
allowed_domain == Lower(start_url.netloc)
self_scheme == start_url.scheme

\* a url of the crawled host takes the scheme of the start url
own_scheme(normalized) ==
    IF normalized.scheme # self_scheme /\ normalized.netloc = allowed_domain
    THEN [normalized EXCEPT !.scheme = self_scheme]
    ELSE normalized

\* _full_normalize without the rewrite of the scheme
full_normalize_plain(url) == normalize_url(url)

\* Crawler._full_normalize
full_normalize(url) == own_scheme(normalize_url(url))

is_internal(url) == Lower(url.netloc) = allowed_domain

SKIP_EXTENSIONS ==
    {".jpg", ".jpeg", ".png", ".gif", ".svg", ".webp", ".ico", ".bmp",
     ".pdf", ".doc", ".docx", ".xls", ".xlsx", ".ppt", ".pptx",
     ".zip", ".rar", ".gz", ".tar", ".7z",
     ".mp3", ".mp4", ".avi", ".mov", ".wmv", ".flv", ".webm",
     ".css", ".js", ".json", ".xml", ".woff", ".woff2", ".ttf", ".eot",
     ".exe", ".dmg", ".apk", ".msi"}

\* the last part of a path is one of the skipped extensions
ends_with_skip_extension(path) ==
    /\ Len(path) > 0
    /\ Lower(path[Len(path)]) \in SKIP_EXTENSIONS

\* the loop over SKIP_EXTENSIONS in _enqueue: path.lower().endswith(ext)
has_skip_extension(url) == ends_with_skip_extension(url_path(url))

IsPrefix(p, s) == Len(p) <= Len(s) /\ SubSeq(s, 1, Len(p)) = p

\* the loop of is_allowed stopping at the first rule that matches
RECURSIVE is_allowed_from_first(_, _, _, _, _)
is_allowed_from_first(rs, i, path, best_match, allowed) ==
    IF i > Len(rs) THEN allowed
    ELSE IF IsPrefix(rs[i].path, path) THEN rs[i].allow
         ELSE is_allowed_from_first(rs, i + 1, path, best_match, allowed)

\* RobotsChecker.is_allowed over the rule list rs: the longest matching rule
\* decides, the first one among rules of equal length
RECURSIVE is_allowed_from(_, _, _, _, _)
is_allowed_from(rs, i, path, best_match, allowed) ==
    IF i > Len(rs) THEN allowed
    ELSE IF IsPrefix(rs[i].path, path) /\ Len(rs[i].path) > Len(best_match)
         THEN is_allowed_from(rs, i + 1, path, rs[i].path, rs[i].allow)
         ELSE is_allowed_from(rs, i + 1, path, best_match, allowed)

is_allowed(rs, url) ==
    IF rs = <<>> THEN TRUE ELSE is_allowed_from(rs, 1, url_path(url), <<>>, TRUE)

----------------------------------------------------------------------------
(* CrawlResult and CrawlStats (models/crawl_result.py) *)

MAX_REFERRING == 50     \* cap of CrawlResult.referring_pages
MAX_PENDING == 50       \* cap of one list of _pending_referrers

\* has_form is no field of the dataclass: it is "unset" until a fetch assigns
\* the attribute, and reading it before raises AttributeError
CrawlResult(url, depth, parent_url, status) ==
    [url |-> url, status |-> status, http_status_code |-> 0,
     content_type |-> "", depth |-> depth, parent_url |-> parent_url,
     links_found |-> 0, error_message |-> "", redirect_url |-> NoUrl,
     has_form |-> "unset", referring_pages |-> <<>>]

CrawlStats ==
    [total_discovered |-> 0, total_crawled |-> 0, total_errors |-> 0,
     total_skipped |-> 0, total_2xx |-> 0, total_3xx |-> 0, total_4xx |-> 0,
     total_5xx |-> 0, queue_size |-> 0, max_depth_reached |-> 0]

\* the "summary" object of the JSON error report, but for the duration
Summary(s) ==
    [total_crawled |-> s.total_crawled, total_discovered |-> s.total_discovered,
     total_errors |-> s.total_errors, total_2xx |-> s.total_2xx,
     total_3xx |-> s.total_3xx, total_4xx |-> s.total_4xx,
     total_5xx |-> s.total_5xx]

\* The data the scheduler owns, as one value the helpers below transform.
Cur ==
    [results |-> results, queue |-> queue, seen |-> seen,
     pending |-> pending_referrers, stats |-> stats,
     enq_count |-> enq_count, first_found |-> first_found]

Commit(st) ==
    /\ results' = st.results
    /\ queue' = st.queue
    /\ seen' = st.seen
    /\ pending_referrers' = st.pending
    /\ stats' = st.stats
    /\ enq_count' = st.enq_count
    /\ first_found' = st.first_found

HasSource(list, source_url) == \E i \in 1..Len(list) : list[i].url = source_url

\* _track_referring_page without the length tests
track_referring_page_uncapped(st, target_url, source_url, link_text) ==
    LET normalized == full_normalize(target_url)
        entry == [url |-> source_url, link_text |-> link_text]
    IN  IF normalized \in DOMAIN st.results
        THEN LET referring == st.results[normalized].referring_pages
             IN  IF HasSource(referring, source_url) THEN st
                 ELSE [st EXCEPT !.results[normalized].referring_pages =
                                     Append(referring, entry)]
        ELSE LET pending == IF normalized \in DOMAIN st.pending
                            THEN st.pending[normalized] ELSE <<>>
                 grown == IF ~HasSource(pending, source_url)
                          THEN Append(pending, entry) ELSE pending
             IN  [st EXCEPT !.pending =
                     [u \in DOMAIN st.pending \cup {normalized} |->
                         IF u = normalized THEN grown ELSE st.pending[u]]]

\* Crawler._track_referring_page
track_referring_page(st, target_url, source_url, link_text) ==
    LET normalized == full_normalize(target_url)
        entry == [url |-> source_url, link_text |-> link_text]
    IN  IF normalized \in DOMAIN st.results
        THEN LET referring == st.results[normalized].referring_pages
             IN  IF HasSource(referring, source_url) THEN st
                 ELSE IF Len(referring) < MAX_REFERRING
                      THEN [st EXCEPT !.results[normalized].referring_pages =
                                          Append(referring, entry)]
                      ELSE st
        ELSE LET pending == IF normalized \in DOMAIN st.pending
                            THEN st.pending[normalized] ELSE <<>>
                 grown == IF ~HasSource(pending, source_url)
                             /\ Len(pending) < MAX_PENDING
                          THEN Append(pending, entry) ELSE pending
             IN  [st EXCEPT !.pending =
                     [u \in DOMAIN st.pending \cup {normalized} |->
                         IF u = normalized THEN grown ELSE st.pending[u]]]

\* Crawler._count_http_status
count_http_status(s, status_code) ==
    LET category == status_code \div 100
    IN  CASE category = 2 -> [s EXCEPT !.total_2xx = @ + 1]
          [] category = 3 -> [s EXCEPT !.total_3xx = @ + 1]
          [] category = 4 -> [s EXCEPT !.total_4xx = @ + 1, !.total_errors = @ + 1]
          [] category = 5 -> [s EXCEPT !.total_5xx = @ + 1, !.total_errors = @ + 1]
          [] OTHER -> s

\* History of the first discovery of a url: how ("start", "seed", "within",
\* or "beyond" when the link was found on a page at a depth d with
\* d + 1 > max_depth) and on which page.
NoteFound(st, normalized, how, page) ==
    IF st.first_found[normalized].how = "none"
    THEN [st EXCEPT !.first_found[normalized] = [how |-> how, page |-> page]] ELSE st

\* _enqueue without the test of the seen-set
enqueue_accepts_unseen(st, url) == ~has_skip_extension(full_normalize(url))

\* Crawler._enqueue: TRUE when the url is new and would be added
enqueue_accepts(st, url) ==
    LET normalized == full_normalize(url)
    IN  normalized \notin st.seen /\ ~has_skip_extension(normalized)

enqueue(st, url, depth, parent) ==
    LET normalized == full_normalize(url)
    IN  IF ~enqueue_accepts(st, url) THEN st
        ELSE LET q == Append(st.queue,
                         [url |-> normalized, depth |-> depth, parent |-> parent])
             IN  [st EXCEPT !.seen = @ \cup {normalized},
                            !.queue = q,
                            !.enq_count[normalized] = @ + 1,
                            !.stats.total_discovered = @ + 1,
                            !.stats.queue_size = Len(q)]

\* the depth test off by one
within_depth_lax(depth) == depth <= cfg.max_depth

\* the test depth + 1 <= self.max_depth of _crawl_url
within_depth(depth) == depth + 1 <= cfg.max_depth

\* the MAX_DEPTH branch without storing the result
record_max_depth_unstored(st, normalized, depth, url) ==
    IF normalized \notin st.seen
    THEN [st EXCEPT !.seen = @ \cup {normalized},
                    !.stats.total_discovered = @ + 1]
    ELSE st

\* the MAX_DEPTH branch without counting the url as discovered
record_max_depth_uncounted(st, normalized, depth, url) ==
    IF normalized \notin st.seen
    THEN [st EXCEPT
            !.seen = @ \cup {normalized},
            !.results = [u \in DOMAIN st.results \cup {normalized} |->
                            IF u = normalized
                            THEN CrawlResult(normalized, depth + 1, url, "MAX_DEPTH")
                            ELSE st.results[u]]]
    ELSE st

\* the MAX_DEPTH branch of the link loop of _crawl_url
record_max_depth(st, normalized, depth, url) ==
    IF normalized \notin st.seen
    THEN [st EXCEPT
            !.seen = @ \cup {normalized},
            !.results = [u \in DOMAIN st.results \cup {normalized} |->
                            IF u = normalized
                            THEN CrawlResult(normalized, depth + 1, url, "MAX_DEPTH")
                            ELSE st.results[u]],
            !.stats.total_discovered = @ + 1]
    ELSE st

\* the link loop enqueueing the children at the depth of their parent
process_link_flat(st, link, url, depth) ==
    LET normalized == full_normalize(link.url)
        found == NoteFound(st, normalized,
                           IF depth + 1 > cfg.max_depth THEN "beyond" ELSE "within", url)
        tracked == track_referring_page(found, link.url, url, link.text)
    IN  IF within_depth(depth)
        THEN enqueue(tracked, link.url, depth, url)
        ELSE record_max_depth(tracked, normalized, depth, url)

\* one pass of the link loop of _crawl_url
process_link(st, link, url, depth) ==
    LET normalized == full_normalize(link.url)
        found == NoteFound(st, normalized,
                           IF depth + 1 > cfg.max_depth THEN "beyond" ELSE "within", url)
        tracked == track_referring_page(found, link.url, url, link.text)
    IN  IF within_depth(depth)
        THEN enqueue(tracked, link.url, depth + 1, url)
        ELSE record_max_depth(tracked, normalized, depth, url)

RECURSIVE process_links(_, _, _, _, _)
process_links(st, links, i, url, depth) ==
    IF i > Len(links) THEN st
    ELSE process_links(process_link(st, links[i], url, depth), links, i + 1, url, depth)

----------------------------------------------------------------------------
(* The site: what the server answers to a GET.                             *)

Anchor(url, text) == [url |-> url, text |-> text]

\* absolute urls of <a href> elements, as urljoin leaves them
A_root == Anchor(Url("https", "a.test", <<"/">>, ""), "home")
A_a == Anchor(Url("https", "a.test", <<"/", "a">>, "x"), "a")
A_a2 == Anchor(Url("http", "a.test", <<"/", "%61">>, ""), "a")
A_b == Anchor(Url("https", "A.TEST", <<"/", "b">>, ""), "b")
A_pdf == Anchor(Url("https", "a.test", <<"/", "c", ".PDF">>, ""), "pdf")
A_ext == Anchor(Url("https", "other.test", <<"/">>, ""), "ext")
A_c == Anchor(Url("https", "a.test", <<"/", "c">>, ""), "c")
A_d == Anchor(Url("https", "a.test", <<"/", "d">>, ""), "d")
\* links with encoded characters, parameters and a query
A_semi == Anchor(Url("https", "a.test", <<"/", "b", "%3B">>, ""), "semi")
A_params == Anchor(Url("https", "a.test", <<"/", "b", ";", "p">>, ""), "params")
A_twice == Anchor(Url("https", "a.test", <<"/", "%2561">>, ""), "twice")
A_query == Anchor(WithQuery(Url("http", "a.test", <<"/", "a">>, ""),
                            <<"x", "=", "%61", "%3F">>), "query")

\* the pages /p00, /p01, ... of the site whose pages all link to /a
Digits == <<"0", "1", "2", "3", "4", "5", "6", "7", "8", "9">>
StarUrl(i) ==
    Url("https", "a.test", <<"/", "p", Digits[(i \div 10) + 1], Digits[(i % 10) + 1]>>, "")
StarSitemap == [i \in 1..StarPages |-> StarUrl(i)]

Reply(exc, error, history, status, final_url, content_type, body) ==
    [exc |-> exc, error |-> error, history |-> history, status |-> status,
     final_url |-> final_url, content_type |-> content_type, body |-> body,
     form |-> FALSE]

\* the same answer with a <form> in its document
WithForm(reply) == [reply EXCEPT !.form = TRUE]

Page(status, content_type, body) ==
    Reply("none", "", FALSE, status, NoUrl, content_type, body)

\* the pages of a site of HTML pages that differ in their links
LinkBodies ==
    { <<>>, <<A_a, A_b>>, <<A_a2, A_pdf, A_a>>, <<A_b, A_ext, A_root>> }

LinkReplies == { Page(200, "text/html", b) : b \in LinkBodies }

\* the pages of the site with two ways to /d: / -> /a -> /c -> /d and / -> /b -> /d
TwoWaysBody(url) ==
    CASE url = A_root.url -> <<A_a, A_b>>
      [] url = Url("https", "a.test", <<"/", "a">>, "") -> <<A_c>>
      [] url = A_c.url -> <<A_d>>
      [] url = Url("https", "a.test", <<"/", "b">>, "") -> <<A_d>>
      [] OTHER -> <<>>

\* the pages of the site whose start page links to urls with encoded
\* characters, parameters and a query
EncodedBody(url) ==
    IF url = start_url THEN <<A_semi, A_query, A_twice, A_params, A_b>> ELSE <<>>

\* the answers of a site whose urls fail, redirect or report errors
StatusReplies ==
    \* the request raises: connection refused, or a timeout with an empty text
    { Reply("request", e, FALSE, 0, NoUrl, "", <<>>) : e \in {"connection refused", ""} }
    \* a response whose body makes the link extraction raise
    \cup { WithForm(Reply("parse", "Invalid IPv6 URL", h, 200,
                 Url("https", "a.test", <<"/", "b">>, ""), "text/html", <<>>)) : h \in BOOLEAN }
    \* a page, an error page, a status outside 2xx..5xx
    \cup { Page(s, "text/html", <<A_a>>) : s \in {200, 404, 503, 999} }
    \* a document with a link and a form that is not served as text/html
    \cup { WithForm(Page(200, "application/xhtml+xml", <<A_a>>)) }
    \* a redirect within the site and one leaving it
    \cup { Reply("none", "", TRUE, 301, Url("https", "a.test", <<"/", "b">>, ""),
                 "text/html", <<A_a>>) }
    \cup { WithForm(Reply("none", "", TRUE, 302, Url("https", "other.test", <<"/">>, ""),
                          "text/html", <<A_a>>)) }

is_html(content_type) == content_type \in {"text/html", "text/html; charset=utf-8"}

\* Crawler._extract_links on the anchors of a parsed page: urldefrag, _is_internal
RECURSIVE extract_links(_)
extract_links(body) ==
    IF body = <<>> THEN <<>>
    ELSE LET a == Head(body)
             absolute == [a.url EXCEPT !.fragment = ""]
         IN  IF is_internal(absolute)
             THEN <<Anchor(absolute, a.text)>> \o extract_links(Tail(body))
             ELSE extract_links(Tail(body))

\* the fetch of the former crawler (playwright_sitemap_generator), which set
\* the status REDIRECT itself when the response had a history
fetch_with_httpx_old(result, reply) ==
    IF reply.exc = "request"
    THEN [result |-> result, links |-> <<>>, raised |-> TRUE]
    ELSE LET r1 == [result EXCEPT !.content_type = reply.content_type,
                                  !.http_status_code = reply.status]
             r2 == IF reply.history
                   THEN [r1 EXCEPT !.status = "REDIRECT", !.redirect_url = reply.final_url]
                   ELSE r1
         IN  IF ~is_html(r2.content_type)
             THEN [result |-> r2, links |-> <<>>, raised |-> FALSE]
             ELSE IF reply.exc = "parse"
             THEN [result |-> r2, links |-> <<>>, raised |-> TRUE]
             ELSE [result |-> r2, links |-> extract_links(reply.body), raised |-> FALSE]

\* Crawler._fetch_with_httpx: the result as the attempt leaves it, the links
\* returned, and whether the attempt raised
fetch_with_httpx(result, reply) ==
    IF reply.exc = "request"
    THEN [result |-> result, links |-> <<>>, raised |-> TRUE]
    ELSE LET r1 == [result EXCEPT !.content_type = reply.content_type]
             r2 == IF reply.history
                   THEN [r1 EXCEPT !.http_status_code = reply.status,
                                   !.redirect_url = reply.final_url]
                   ELSE [r1 EXCEPT !.http_status_code = reply.status]
         IN  IF reply.history /\ Lower(reply.final_url.netloc) # allowed_domain
             THEN [result |-> r2, links |-> <<>>, raised |-> FALSE]
             ELSE IF ~is_html(r2.content_type)
             THEN [result |-> r2, links |-> <<>>, raised |-> FALSE]
             ELSE LET r3 == [r2 EXCEPT !.has_form = IF reply.form THEN "true" ELSE "false"]
                  IN  IF reply.exc = "parse"
                      THEN [result |-> r3, links |-> <<>>, raised |-> TRUE]
                      ELSE [result |-> r3, links |-> extract_links(reply.body),
                            raised |-> FALSE]

\* the links of the rendered DOM: a[href] starting with http, _is_internal
dom_links(body) == SelectSeq(body, LAMBDA a : is_internal(a.url))

\* Crawler._fetch_with_playwright: page.goto raises, or the fields are set from
\* the response, the forms and links are read from the rendered DOM (the
\* page.evaluate call reading the links may raise)
fetch_with_playwright(result, reply) ==
    IF reply.exc = "request"
    THEN [result |-> result, links |-> <<>>, raised |-> TRUE]
    ELSE LET r1 == [result EXCEPT !.content_type = reply.content_type]
             r2 == IF reply.history
                   THEN [r1 EXCEPT !.redirect_url = reply.final_url,
                                   !.http_status_code = 301]
                   ELSE [r1 EXCEPT !.http_status_code = reply.status]
         IN  IF reply.history /\ Lower(reply.final_url.netloc) # allowed_domain
             THEN [result |-> r2, links |-> <<>>, raised |-> FALSE]
             ELSE LET r3 == [r2 EXCEPT !.has_form = IF reply.form THEN "true" ELSE "false"]
                  IN  IF reply.exc = "parse"
                      THEN [result |-> r3, links |-> <<>>, raised |-> TRUE]
                      ELSE [result |-> r3, links |-> dom_links(reply.body),
                            raised |-> FALSE]

\* friendly_error_message (models/crawl_result.py) on the error texts of the model
friendly_error_message(error) ==
    CASE error = "connection refused"
             -> "Verbindung abgelehnt: Server antwortet nicht auf diesem Port"
      [] OTHER -> error

----------------------------------------------------------------------------
(* Configurations and the initial state (Crawler.__init__)                 *)

Config(max_depth, concurrency, respect_robots, max_retries) ==
    [max_depth |-> max_depth, concurrency |-> concurrency,
     respect_robots |-> respect_robots, max_retries |-> max_retries,
     render |-> FALSE]

\* the same configuration in render mode (pages are loaded in the browser)
Rendered(c) == [c EXCEPT !.render = TRUE]

\* one slot too many
self_concurrency_plus == cfg.concurrency + 1

\* the value __init__ stores in self.concurrency
self_concurrency == cfg.concurrency

\* a site: its pages, the urls of its published sitemap (in the order the
\* set is iterated) and the rules of its robots.txt
Site(pages, sitemap, robots) == [pages |-> pages, sitemap |-> sitemap, robots |-> robots]

RuleSets ==
    { <<[path |-> <<"/", "b">>, allow |-> FALSE]>>,
      <<[path |-> <<"/">>, allow |-> FALSE], [path |-> <<"/", "a">>, allow |-> TRUE]>>,
      <<[path |-> <<"/", "a">>, allow |-> FALSE], [path |-> <<"/">>, allow |-> TRUE],
        [path |-> <<"/", "a">>, allow |-> TRUE]>> }

Sitemaps ==
    { <<Url("https", "a.test", <<"/", "b">>, ""),
        Url("https", "other.test", <<"/", "a">>, "")>>,
      <<Url("http", "A.TEST", <<"/", "a">>, ""),
        Url("https", "a.test", <<>>, ""),
        A_pdf.url>> }

\* the crawls of the model: a configuration and a site
Scenarios ==
    \* sites that differ in their links, crawled at every depth and concurrency
    { [cfg |-> Config(d, n, FALSE, 0), site |-> Site("links", <<>>, <<>>)] :
        d \in 0..MaxDepthCfg, n \in 1..MaxConcurrency }
    \* sites with a robots.txt, respected or not
    \cup { [cfg |-> Config(MaxDepthCfg, MaxConcurrency, r, 0), site |-> Site("links", <<>>, rs)] :
        r \in BOOLEAN, rs \in RuleSets }
    \* sites with a robots.txt and a published sitemap
    \cup { [cfg |-> Config(MaxDepthCfg, 1, TRUE, 0), site |-> Site("links", sm, rs)] :
        sm \in Sitemaps, rs \in RuleSets }
    \* sites with a published sitemap
    \cup { [cfg |-> Config(d, MaxConcurrency, FALSE, 0), site |-> Site("links", sm, <<>>)] :
        d \in 0..MaxDepthCfg, sm \in Sitemaps }
    \* sites whose urls fail, redirect or report errors, with retries
    \cup { [cfg |-> Config(MaxDepthCfg, n, FALSE, m), site |-> Site("status", <<A_a.url>>, <<>>)] :
        n \in 1..MaxConcurrency, m \in 0..MaxRetries }
    \* the site whose pages all link to /a: /a is crawled first (it heads the
    \* sitemap), crawled last (max_depth 2), or beyond the depth (max_depth 1)
    \cup { [cfg |-> Config(2, 1, FALSE, 0), site |-> Site("star", <<A_a.url>> \o StarSitemap, <<>>)],
           [cfg |-> Config(2, 1, FALSE, 0), site |-> Site("star", StarSitemap, <<>>)],
           [cfg |-> Config(1, 1, FALSE, 0), site |-> Site("star", StarSitemap, <<>>)] }
    \* the same sites crawled in render mode
    \cup { [cfg |-> Rendered(Config(MaxDepthCfg, 1, FALSE, m)),
             site |-> Site("status", <<A_a.url>>, <<>>)] : m \in 0..MaxRetries }
    \* the site with two ways to /d, crawled to the depth of the longer way or
    \* one short of it
    \cup { [cfg |-> Config(d, n, FALSE, 0), site |-> Site("twoways", <<>>, <<>>)] :
        d \in (MaxDepthCfg + 1)..(MaxDepthCfg + 2), n \in 1..MaxConcurrency }
    \* the site whose links carry encoded characters, parameters and a query
    \cup { [cfg |-> Config(MaxDepthCfg, n, FALSE, 0), site |-> Site("encoded", <<>>, <<>>)] :
        n \in 1..MaxConcurrency }

SeqRange(q) == {q[i] : i \in 1..Len(q)}

\* every canonical url the crawl of the site can come across
AllUrls ==
    {start_url}
    \cup {full_normalize(a.url) : a \in {A_root, A_a, A_a2, A_b, A_pdf}}
    \cup {full_normalize(u) : u \in SeqRange(site.sitemap)}
    \cup (IF site.pages = "twoways" THEN {A_c.url, A_d.url} ELSE {})
    \cup (IF site.pages = "encoded"
          THEN {full_normalize(a.url) : a \in {A_semi, A_params, A_twice, A_query}}
          ELSE {})

\* nothing is written, loaded or copied yet
ReaderIdle ==
    /\ discovery = [done |-> FALSE, sitemap_url |-> <<>>, requests |-> <<>>]
    /\ loader = [pc |-> "idle", stack |-> <<>>]
    /\ sitemap_urls = {}
    /\ fetches = {}
    /\ official_sitemap_urls = {}
    /\ clipboard = [copied |-> FALSE, not_in_sitemap |-> <<>>, not_crawled |-> <<>>]
    /\ report = [written |-> FALSE, summary |-> Summary(CrawlStats), dead_links |-> {}]

AppIdle ==
    /\ writer_results = <<>>
    /\ files = <<>>
    /\ written = NotWritten
    /\ web = <<>>
    /\ ReaderIdle

\* the crawler as __init__ leaves it
Constructed ==
    /\ rules = <<>>
    /\ seed_urls = <<>>
    /\ results = <<>>
    /\ queue = <<>>
    /\ seen = {}
    /\ pending_referrers = <<>>
    /\ stats = CrawlStats
    /\ cancelled = FALSE
    /\ tasks = <<>>
    /\ active_tasks = {}
    /\ semaphore = 0
    /\ main = [pc |-> "idle", waiting |-> {}]
    /\ emitted = [u \in AllUrls |-> <<>>]
    /\ enq_count = [u \in AllUrls |-> 0]
    /\ fetch_calls = [u \in AllUrls |-> 0]
    /\ failed = {}
    /\ first_found = [u \in AllUrls |-> [how |-> "none", page |-> NoUrl]]

Init ==
    /\ \E sc \in Scenarios : cfg = sc.cfg /\ site = sc.site
    /\ Constructed
    /\ AppIdle

----------------------------------------------------------------------------
(* The scheduler: Crawler.crawl, add_seed_urls, cancel                     *)

\* add_seed_urls without the test of the host
accepted_seeds_all(urls) == urls

\* the loop of add_seed_urls: the urls of the start host, in the given order
accepted_seeds(urls) ==
    SelectSeq(urls, LAMBDA url : Lower(url.netloc) = allowed_domain)

\* Crawler.add_seed_urls: the accepted urls are appended to _seed_urls and
\* their number is returned
add_seed_urls(urls) ==
    [seed_urls |-> seed_urls \o accepted_seeds(urls),
     accepted |-> Len(accepted_seeds(urls))]

\* the app hands the urls of the published sitemap, if any, to add_seed_urls
AddSeedUrls ==
    /\ main.pc = "idle"
    /\ seed_urls = <<>>
    /\ site.sitemap # <<>>
    /\ seed_urls' = add_seed_urls(site.sitemap).seed_urls
    /\ UNCHANGED <<cfg, rules, results, queue, seen, pending_referrers, stats,
                   cancelled, tasks, active_tasks, semaphore, main, emitted,
                   enq_count, fetch_calls, failed, first_found, site, app_vars>>

\* Crawler.cancel
Cancel ==
    /\ main.pc # "done"
    /\ ~cancelled
    /\ cancelled' = TRUE
    /\ UNCHANGED <<cfg, rules, seed_urls, results, queue, seen, pending_referrers,
                   stats, tasks, active_tasks, semaphore, main, emitted, enq_count,
                   fetch_calls, failed, first_found, site, app_vars>>

Task(url, depth, parent) ==
    [url |-> url, depth |-> depth, parent |-> parent, pc |-> "new", attempt |-> 0,
     wait |-> 0]

\* an inner loop that lets one task more than the concurrency in
RECURSIVE spawn_tasks_one_more(_, _, _)
spawn_tasks_one_more(st, tsk, act) ==
    IF st.queue # <<>> /\ Cardinality(act) <= self_concurrency
    THEN LET item == Head(st.queue)
             rest == Tail(st.queue)
         IN  spawn_tasks_one_more(
                 [st EXCEPT !.queue = rest, !.stats.queue_size = Len(rest)],
                 Append(tsk, Task(item.url, item.depth, item.parent)),
                 act \cup {Len(tsk) + 1})
    ELSE [st |-> st, tasks |-> tsk, active |-> act]

\* the inner loop of crawl(): while self._queue and len(active_tasks) < concurrency
RECURSIVE spawn_tasks(_, _, _)
spawn_tasks(st, tsk, act) ==
    IF st.queue # <<>> /\ Cardinality(act) < self_concurrency
    THEN LET item == Head(st.queue)
             rest == Tail(st.queue)
         IN  spawn_tasks([st EXCEPT !.queue = rest, !.stats.queue_size = Len(rest)],
                         Append(tsk, Task(item.url, item.depth, item.parent)),
                         act \cup {Len(tsk) + 1})
    ELSE [st |-> st, tasks |-> tsk, active |-> act]

\* a finally block that returns without gathering the running tasks
finally_abandon(sp) ==
    [st |-> sp.st, tasks |-> sp.tasks, active |-> sp.active,
     main |-> [pc |-> "done", waiting |-> {}]]

\* the finally block of crawl(): gather what is still running, then finish
finally(sp) ==
    [st |-> sp.st, tasks |-> sp.tasks, active |-> sp.active,
     main |-> IF sp.active # {} THEN [pc |-> "drain", waiting |-> sp.active]
              ELSE [pc |-> "done", waiting |-> {}]]

\* a scheduler loop that spawns once and leaves while tasks are in flight
loop_iteration_once(st, tsk, act) == finally(spawn_tasks(st, tsk, act))

\* one pass of the outer loop of crawl(), from the loop test to the next await
loop_iteration(st, tsk, act) ==
    IF (st.queue # <<>> \/ act # {}) /\ ~cancelled
    THEN LET sp == spawn_tasks(st, tsk, act)
         IN  IF sp.st.queue = <<>> /\ sp.active # {}
             THEN [st |-> sp.st, tasks |-> sp.tasks, active |-> sp.active,
                   main |-> [pc |-> "wait", waiting |-> sp.active]]
             ELSE IF sp.active = {} /\ sp.st.queue = <<>>
             THEN finally(sp)
             ELSE [st |-> sp.st, tasks |-> sp.tasks, active |-> sp.active,
                   main |-> [pc |-> "sleep", waiting |-> {}]]
    ELSE finally([st |-> st, tasks |-> tsk, active |-> act])

\* the loop of crawl() over self._seed_urls, for the seeds lo..hi in order
\* (split in halves: the left half is enqueued before the right one)
RECURSIVE enqueue_seeds(_, _, _, _)
enqueue_seeds(st, urls, lo, hi) ==
    IF lo > hi THEN st
    ELSE IF lo = hi
    THEN enqueue(NoteFound(st, full_normalize(urls[lo]), "seed", start_url),
                 urls[lo], 1, start_url)
    ELSE LET mid == (lo + hi) \div 2
         IN  CHOOSE r \in { enqueue_seeds(left, urls, mid + 1, hi) :
                                left \in {enqueue_seeds(st, urls, lo, mid)} } : TRUE

\* crawl() from the end of the robots.txt step to its first await
\* (each step is computed once and handed on as a value)
start_crawl ==
    CHOOSE r \in
        { loop_iteration(st1, tasks, active_tasks) :
            st1 \in { enqueue_seeds(st0, seed_urls, 1, Len(seed_urls)) :
                st0 \in { enqueue(found, start_url, 0, NoUrl) :
                    found \in {NoteFound(Cur, full_normalize(start_url),
                                         "start", NoUrl)} } } } : TRUE

CommitLoop(r) ==
    /\ Commit(r.st)
    /\ tasks' = r.tasks
    /\ active_tasks' = r.active
    /\ main' = r.main

\* crawl() is called: with robots it awaits RobotsChecker.load first
CrawlBegin ==
    /\ main.pc = "idle"
    /\ IF cfg.respect_robots
       THEN /\ main' = [pc |-> "robots", waiting |-> {}]
            /\ UNCHANGED <<results, queue, seen, pending_referrers, stats, tasks,
                           active_tasks, semaphore, enq_count, first_found>>
       ELSE /\ \E r \in {start_crawl} : CommitLoop(r)
            /\ semaphore' = self_concurrency
    /\ UNCHANGED <<cfg, rules, seed_urls, cancelled, emitted, fetch_calls, failed, site, app_vars>>

\* the outcomes of the request for /robots.txt: the file, an error page with
\* the same text, or an exception of the client
RobotsReplies ==
    { [raised |-> FALSE, status_code |-> 200, rules |-> site.robots],
      [raised |-> FALSE, status_code |-> 404, rules |-> site.robots],
      [raised |-> FALSE, status_code |-> 503, rules |-> site.robots],
      [raised |-> TRUE, status_code |-> 0, rules |-> <<>>] }

\* RobotsChecker.load: only a reply with status 200 is parsed, an exception is
\* swallowed; _rules is empty before
load(reply) ==
    IF ~reply.raised /\ reply.status_code = 200 THEN reply.rules ELSE <<>>

\* RobotsChecker.load returns; crawl() goes on to its first await
RobotsLoaded(reply) ==
    /\ main.pc = "robots"
    /\ rules' = load(reply)
    /\ \E r \in {start_crawl} : CommitLoop(r)
    /\ semaphore' = self_concurrency
    /\ UNCHANGED <<cfg, seed_urls, cancelled, emitted, fetch_calls, failed, site, app_vars>>

AllDone(ts) == \A t \in ts : tasks[t].pc = "done"
SomeDone(ts) == \E t \in ts : tasks[t].pc = "done"

\* crawl() wakes from asyncio.wait(FIRST_COMPLETED) or from asyncio.sleep(0.05)
MainLoop ==
    /\ \/ main.pc = "sleep"
       \/ main.pc = "wait" /\ SomeDone(main.waiting)
    /\ CommitLoop(loop_iteration(Cur, tasks, active_tasks))
    /\ UNCHANGED <<cfg, rules, seed_urls, cancelled, semaphore, emitted,
                   fetch_calls, failed, site, app_vars>>

\* asyncio.gather of the finally block returns
MainDrain ==
    /\ main.pc = "drain"
    /\ AllDone(main.waiting)
    /\ main' = [pc |-> "done", waiting |-> {}]
    /\ UNCHANGED <<cfg, rules, seed_urls, results, queue, seen, pending_referrers,
                   stats, cancelled, tasks, active_tasks, semaphore, emitted,
                   enq_count, fetch_calls, failed, first_found, site, app_vars>>

----------------------------------------------------------------------------
(* The per-URL task: Crawler._crawl_url                                    *)

\* a crawler that keeps the status to itself
Emit_silent(url, status) == UNCHANGED emitted

Emit(url, status) == emitted' = [emitted EXCEPT ![url] = Append(@, status)]

SetResult(res, url, r) ==
    [u \in DOMAIN res \cup {url} |-> IF u = url THEN r ELSE res[u]]

Finish(t) ==
    /\ tasks' = [tasks EXCEPT ![t].pc = "done", ![t].attempt = 0, ![t].wait = 0]
    /\ active_tasks' = active_tasks \ {t}

\* what the site may answer to a GET of url
ReplyChoices(url) ==
    CASE site.pages = "links" -> LinkReplies
      [] site.pages = "status" -> StatusReplies
      [] site.pages = "twoways" -> {Page(200, "text/html", TwoWaysBody(url))}
      [] site.pages = "encoded" -> {Page(200, "text/html", EncodedBody(url))}
      [] site.pages = "star" ->
            IF url \in {start_url, full_normalize(A_a.url)}
            THEN {Page(200, "text/html", <<>>)}
            ELSE {Page(200, "text/html", <<A_a, A_a2>>)}

\* the head of _crawl_url: the result is created and stored, the pending
\* referrers are moved into it
create_result(url, depth, parent) ==
    LET result == CrawlResult(url, depth, parent, "PENDING")
    IN  IF url \in DOMAIN pending_referrers
        THEN [result EXCEPT !.referring_pages = @ \o pending_referrers[url]]
        ELSE result

\* the robots.txt test with the "not" forgotten
robots_skips_inverted(url) == cfg.respect_robots /\ is_allowed(rules, url)

\* the robots.txt test of _crawl_url
robots_skips(url) == cfg.respect_robots /\ ~is_allowed(rules, url)

\* "async with semaphore" entered without looking at the cancel flag
EnterSlot_unchecked(t, res) ==
    /\ results' = [res EXCEPT ![tasks[t].url].status = "CRAWLING"]
    /\ Emit(tasks[t].url, "CRAWLING")
    /\ semaphore' = semaphore - 1
    /\ tasks' = [tasks EXCEPT ![t].pc = "fetch", ![t].attempt = 0]
    /\ fetch_calls' = [fetch_calls EXCEPT ![tasks[t].url] = @ + 1]
    /\ UNCHANGED active_tasks

\* "async with semaphore" is entered: cancelled tasks leave at once, the others
\* set CRAWLING, emit and start the first fetch attempt
EnterSlot(t, res) ==
    IF cancelled
    THEN /\ results' = res
         /\ Finish(t)
         /\ UNCHANGED <<semaphore, emitted, fetch_calls>>
    ELSE /\ results' = [res EXCEPT ![tasks[t].url].status = "CRAWLING"]
         /\ Emit(tasks[t].url, "CRAWLING")
         /\ semaphore' = semaphore - 1
         /\ tasks' = [tasks EXCEPT ![t].pc = "fetch", ![t].attempt = 0]
         /\ fetch_calls' = [fetch_calls EXCEPT ![tasks[t].url] = @ + 1]
         /\ UNCHANGED active_tasks

\* the event loop starts new tasks in the order of their creation
StartsNext(t) == \A o \in 1..(t - 1) : tasks[o].pc # "new"

\* a new task runs up to its first await, or a task waiting for the semaphore
\* gets its slot
TaskAcquire(t) ==
    /\ t \in 1..Len(tasks)
    /\ tasks[t].pc = "new" => StartsNext(t)
    /\ LET url == tasks[t].url IN
       IF tasks[t].pc = "new"
       THEN LET result == create_result(url, tasks[t].depth, tasks[t].parent)
                res == SetResult(results, url, result)
            IN  /\ pending_referrers' =
                       [u \in DOMAIN pending_referrers \ {url} |-> pending_referrers[u]]
                /\ IF robots_skips(url)
                   THEN /\ results' = [res EXCEPT ![url].status = "SKIPPED",
                                 ![url].error_message = "robots.txt disallowed"]
                        /\ stats' = [stats EXCEPT !.total_skipped = @ + 1]
                        /\ Emit(url, "SKIPPED")
                        /\ Finish(t)
                        /\ UNCHANGED <<semaphore, fetch_calls>>
                   ELSE IF semaphore > 0
                   THEN EnterSlot(t, res) /\ UNCHANGED stats
                   ELSE /\ results' = res
                        /\ tasks' = [tasks EXCEPT ![t].pc = "sem"]
                        /\ UNCHANGED <<stats, semaphore, emitted, fetch_calls,
                                       active_tasks>>
       ELSE /\ tasks[t].pc = "sem"
            /\ semaphore > 0
            /\ EnterSlot(t, results)
            /\ UNCHANGED <<stats, pending_referrers>>
    /\ UNCHANGED <<cfg, rules, seed_urls, queue, seen, cancelled, main, enq_count,
                   failed, first_found, site, app_vars>>

\* the classification of a fetched result (status and HTTP counters)
classify(st, url) ==
    LET result == st.results[url]
    IN  IF result.redirect_url # NoUrl
        THEN [st EXCEPT
                !.results[url].status =
                    IF Lower(result.redirect_url.netloc) # allowed_domain
                    THEN "REDIRECT_EXTERNAL" ELSE "REDIRECT",
                !.stats.total_3xx = @ + 1]
        ELSE IF result.http_status_code >= 400
        THEN [st EXCEPT !.results[url].status = "ERROR",
                        !.stats = count_http_status(@, result.http_status_code)]
        ELSE [st EXCEPT !.results[url].status = "OK",
                        !.stats = count_http_status(@, result.http_status_code)]

\* the tail of _crawl_url without the count of the crawled url
fetched_uncounted(st, url, depth, links) ==
    LET c == classify(st, url)
        l == process_links(c, links, 1, url, depth)
    IN  [l EXCEPT !.results[url].links_found = Len(links),
                  !.stats.max_depth_reached = IF depth > @ THEN depth ELSE @,
                  !.stats.queue_size = Len(l.queue)]

\* _crawl_url after a fetch attempt that returned
fetched(st, url, depth, links) ==
    LET c == classify(st, url)
        l == process_links(c, links, 1, url, depth)
    IN  [l EXCEPT !.results[url].links_found = Len(links),
                  !.stats.total_crawled = @ + 1,
                  !.stats.max_depth_reached = IF depth > @ THEN depth ELSE @,
                  !.stats.queue_size = Len(l.queue)]

\* the last exception swallowed without recording the failure
fetch_failed_unrecorded(st, url, error) ==
    [st EXCEPT !.stats.queue_size = Len(st.queue)]

\* _crawl_url after the last fetch attempt raised
fetch_failed(st, url, error) ==
    [st EXCEPT !.results[url].status = "ERROR",
               !.results[url].error_message = friendly_error_message(error),
               !.stats.total_errors = @ + 1,
               !.stats.total_crawled = @ + 1,
               !.stats.queue_size = Len(st.queue)]

\* a retry loop that counts the attempts from 0 for the wait
backoff_from_zero(attempt) == 2 * attempt

\* wait = 2 * (attempt + 1): the seconds slept after attempt number attempt,
\* counted from 0, raised
backoff(attempt) == 2 * (attempt + 1)

\* a fetch attempt ends: it returned, or it raised and is retried or given up
TaskFetchDone(t, reply) ==
    /\ t \in 1..Len(tasks)
    /\ tasks[t].pc = "fetch"
    /\ LET url == tasks[t].url
           f == IF cfg.render THEN fetch_with_playwright(results[url], reply)
                ELSE fetch_with_httpx(results[url], reply)
           st == [Cur EXCEPT !.results[url] = f.result]
       IN  IF f.raised /\ tasks[t].attempt < cfg.max_retries
           THEN /\ Commit(st)
                /\ tasks' = [tasks EXCEPT ![t].pc = "sleep",
                                          ![t].wait = backoff(tasks[t].attempt)]
                /\ UNCHANGED <<active_tasks, semaphore, emitted, failed>>
           ELSE /\ IF f.raised
                   THEN /\ Commit(fetch_failed(st, url, reply.error))
                        /\ failed' = failed \cup {url}
                   ELSE /\ Commit(fetched(st, url, tasks[t].depth, f.links))
                        /\ UNCHANGED failed
                /\ emitted' = [emitted EXCEPT ![url] =
                                   Append(@, results'[url].status)]
                /\ semaphore' = semaphore + 1
                /\ Finish(t)
    /\ UNCHANGED <<cfg, rules, seed_urls, cancelled, main, fetch_calls, site, app_vars>>

\* the backoff sleep of the retry loop ends, the next attempt starts
TaskWake(t) ==
    /\ t \in 1..Len(tasks)
    /\ tasks[t].pc = "sleep"
    /\ tasks' = [tasks EXCEPT ![t].pc = "fetch", ![t].attempt = @ + 1, ![t].wait = 0]
    /\ fetch_calls' = [fetch_calls EXCEPT ![tasks[t].url] = @ + 1]
    /\ UNCHANGED <<cfg, rules, seed_urls, results, queue, seen, pending_referrers,
                   stats, cancelled, active_tasks, semaphore, main, emitted,
                   enq_count, failed, first_found, site, app_vars>>

----------------------------------------------------------------------------

\* the characters of a part of a url
Spell(token) ==
    CASE token = "https" -> <<"h", "t", "t", "p", "s">>
      [] token = "http" -> <<"h", "t", "t", "p">>
      [] token = "://" -> <<":", "/", "/">>
      [] token = "a.test" -> <<"a", ".", "t", "e", "s", "t">>
      [] token = "A.TEST" -> <<"A", ".", "T", "E", "S", "T">>
      [] token = "other.test" -> <<"o", "t", "h", "e", "r", ".", "t", "e", "s", "t">>
      [] token = ".PDF" -> <<".", "P", "D", "F">>
      [] token = ".pdf" -> <<".", "p", "d", "f">>
      [] token = "%61" -> <<"%", "6", "1">>
      [] token = "%2561" -> <<"%", "2", "5", "6", "1">>
      [] token = "%3B" -> <<"%", "3", "B">>
      [] token = "%3F" -> <<"%", "3", "F">>
      [] token = "" -> <<>>
      [] OTHER -> <<token>>

\* ord() of a character
Ord(c) ==
    CASE c = "#" -> 35 [] c = "%" -> 37 [] c = "." -> 46 [] c = "/" -> 47
      [] c = "0" -> 48 [] c = "1" -> 49 [] c = "2" -> 50 [] c = "3" -> 51
      [] c = "4" -> 52 [] c = "5" -> 53 [] c = "6" -> 54 [] c = "7" -> 55
      [] c = "8" -> 56 [] c = "9" -> 57 [] c = ":" -> 58 [] c = ";" -> 59
      [] c = "=" -> 61 [] c = "?" -> 63
      [] c = "A" -> 65 [] c = "B" -> 66 [] c = "D" -> 68 [] c = "E" -> 69
      [] c = "F" -> 70 [] c = "P" -> 80 [] c = "S" -> 83 [] c = "T" -> 84
      [] c = "a" -> 97 [] c = "b" -> 98 [] c = "c" -> 99 [] c = "d" -> 100
      [] c = "e" -> 101 [] c = "f" -> 102 [] c = "h" -> 104 [] c = "o" -> 111
      [] c = "p" -> 112 [] c = "r" -> 114 [] c = "s" -> 115 [] c = "t" -> 116
      [] c = "x" -> 120

RECURSIVE SpellAll(_)
SpellAll(tokens) ==
    IF tokens = <<>> THEN <<>> ELSE Spell(Head(tokens)) \o SpellAll(Tail(tokens))

\* the text of a url (urlunparse), as the code points of its characters
url_text(url) ==
    LET chars == SpellAll(<<url.scheme, "://", url.netloc>> \o url.path
                          \o (IF url.query = <<>> THEN <<>> ELSE <<"?">> \o url.query)
                          \o (IF url.fragment = "" THEN <<>> ELSE <<"#", url.fragment>>))
    IN  [i \in 1..Len(chars) |-> Ord(chars[i])]

\* str.__lt__: the order of two texts by their first different character
RECURSIVE str_lt(_, _)
str_lt(s, t) ==
    IF t = <<>> THEN FALSE
    ELSE IF s = <<>> THEN TRUE
    ELSE IF Head(s) # Head(t) THEN Head(s) < Head(t)
    ELSE str_lt(Tail(s), Tail(t))

\* the urls of a set with their texts
keyed(S) == {[url |-> u, text |-> url_text(u)] : u \in S}

\* each url with the number of urls whose text is smaller
ranked(T) ==
    {[url |-> x.url, rank |-> Cardinality({y \in T : str_lt(y.text, x.text)})] : x \in T}

by_rank(R) == [i \in 1..Cardinality(R) |-> (CHOOSE r \in R : r.rank = i - 1).url]

\* sorted() of a set of urls: ascending by text
sorted(S) == by_rank(ranked(keyed(S)))

\* a diff that takes every result as crawled
crawled_urls_all(rs) == DOMAIN rs

\* crawled_urls of action_sitemap_diff: the urls of the results with HTTP
\* status 200
crawled_urls(rs) == {u \in DOMAIN rs : rs[u].http_status_code = 200}

\* action_sitemap_diff, once crawl() returned the results; the official
\* sitemap of the app is the set it loaded from the site and gave to
\* add_seed_urls
SitemapDiff ==
    /\ main.pc = "done"
    /\ results # <<>>
    /\ site.sitemap # <<>>
    /\ LET official == SeqRange(site.sitemap)
       IN  clipboard' = [copied |-> TRUE,
                         not_in_sitemap |-> sorted(crawled_urls(results) \ official),
                         not_crawled |-> sorted(official \ crawled_urls(results))]
    /\ UNCHANGED <<crawler_vars, writer_vars, reader_vars, report>>

\* CrawlResult.is_error
is_error(r) ==
    IF r.status \in {"REDIRECT", "REDIRECT_EXTERNAL"} THEN FALSE
    ELSE r.http_status_code >= 400 \/ r.status \in {"ERROR", "TIMEOUT"}

\* the number of results whose stored HTTP status is not 0 and lies in the
\* hundred cat
in_category(rs, cat) ==
    Cardinality({u \in DOMAIN rs : /\ rs[u].http_status_code # 0
                                   /\ rs[u].http_status_code \div 100 = cat})

\* the CrawlStats that _do_save_error_report rebuilds from the results
rebuilt_stats(rs) ==
    [CrawlStats EXCEPT
        !.total_crawled = Cardinality({u \in DOMAIN rs :
            rs[u].status \notin {"PENDING", "MAX_DEPTH", "SKIPPED"}}),
        !.total_discovered = Cardinality(DOMAIN rs),
        !.total_2xx = in_category(rs, 2),
        !.total_3xx = in_category(rs, 3),
        !.total_4xx = in_category(rs, 4),
        !.total_5xx = in_category(rs, 5),
        !.total_errors = in_category(rs, 4) + in_category(rs, 5)
            + Cardinality({u \in DOMAIN rs :
                  /\ rs[u].status \in {"ERROR", "TIMEOUT"}
                  /\ rs[u].http_status_code < 400})]

\* Reporter.save_error_report: the summary and the urls of dead_links
save_error_report(rs, s) ==
    [written |-> TRUE,
     summary |-> Summary(s),
     dead_links |-> {u \in DOMAIN rs :
                        \/ rs[u].http_status_code >= 400
                        \/ rs[u].status \in {"ERROR", "TIMEOUT"}}]

\* action_action_x once crawl() returned: _do_save_error_report writes the
\* report when there are results and one of them is an error
SaveErrorReport ==
    /\ main.pc = "done"
    /\ results # <<>>
    /\ \E u \in DOMAIN results : is_error(results[u])
    /\ report' = save_error_report(results, rebuilt_stats(results))
    /\ UNCHANGED <<crawler_vars, writer_vars, reader_vars, clipboard>>

Next ==
    \/ AddSeedUrls
    \/ CrawlBegin
    \/ \E reply \in RobotsReplies : RobotsLoaded(reply)
    \/ MainLoop
    \/ MainDrain
    \/ Cancel
    \/ \E t \in 1..Len(tasks) : TaskAcquire(t)
    \/ \E t \in 1..Len(tasks) : \E reply \in ReplyChoices(tasks[t].url) : TaskFetchDone(t, reply)
    \/ \E t \in 1..Len(tasks) : TaskWake(t)
    \/ SitemapDiff
    \/ SaveErrorReport

Spec == Init /\ [][Next]_vars

----------------------------------------------------------------------------
(* Properties *)

Terminal == {"OK", "REDIRECT", "REDIRECT_EXTERNAL", "ERROR", "TIMEOUT"}

TaskIds == 1..Len(tasks)
TasksOf(u) == {t \in TaskIds : tasks[t].url = u}
QueuedAt(u) == {i \in 1..Len(queue) : queue[i].url = u}
Enqueued == {u \in AllUrls : enq_count[u] > 0}
\* the tasks inside "async with semaphore"
Holders == {t \in TaskIds : tasks[t].pc \in {"fetch", "sleep"}}
WithStatus(status) == {u \in DOMAIN results : results[u].status = status}

\* C1: every canonical url is appended to the queue at most once, and at most
\* one task is ever created for it: at any time it is in the queue once, or
\* has one task, or neither.
C1_QueuedOnce ==
    \A u \in AllUrls :
        /\ enq_count[u] <= 1
        /\ Cardinality(QueuedAt(u)) + Cardinality(TasksOf(u)) <= 1

\* a url that two pages link to has been queued once and crawled, with two
\* tasks running side by side
C1_Witness ==
    \E u \in DOMAIN results :
        /\ Len(results[u].referring_pages) >= 2
        /\ enq_count[u] = 1
        /\ \A t \in TasksOf(u) : tasks[t].pc = "done"
        /\ cfg.concurrency >= 2

\* C2: the tasks that hold a slot (from CRAWLING through every attempt and
\* every backoff sleep to the final status) never outnumber the configured
\* concurrency, and neither do the results with status CRAWLING.
C2_SlotBound ==
    /\ Cardinality(Holders) <= cfg.concurrency
    /\ Cardinality(WithStatus("CRAWLING")) <= cfg.concurrency

\* all slots are taken, one by a task in its backoff sleep, while a url waits
C2_Witness ==
    /\ Cardinality(Holders) = cfg.concurrency
    /\ \E t \in Holders : tasks[t].pc = "sleep"
    /\ queue # <<>>

StatusStep(old, new) ==
    \/ old = new
    \/ old = "PENDING" /\ new \in {"CRAWLING", "SKIPPED"}
    \/ old = "CRAWLING" /\ new \in Terminal

\* C3: a result is never removed or replaced, its status only moves
\* PENDING -> CRAWLING -> one final status (or PENDING -> SKIPPED) and a final
\* status never changes; on_result sees CRAWLING before the final status.
C3_StatusLifecycle ==
    /\ [][\A u \in DOMAIN results :
            /\ u \in DOMAIN results'
            /\ results'[u].url = results[u].url
            /\ results'[u].depth = results[u].depth
            /\ results'[u].parent_url = results[u].parent_url
            /\ StatusStep(results[u].status, results'[u].status)]_vars
    /\ [](\A u \in AllUrls :
            /\ emitted[u] \in {<<>>, <<"SKIPPED">>, <<"CRAWLING">>}
                              \cup {<<"CRAWLING", s>> : s \in Terminal}
            /\ Len(emitted[u]) = 2 => results[u].status = emitted[u][2])

\* a url whose first attempt raised and whose retry was answered, and a url
\* that ended as an error, have both been emitted twice
C3_Witness ==
    /\ \E u \in AllUrls : emitted[u] = <<"CRAWLING", "REDIRECT">> /\ fetch_calls[u] = 2
    /\ \E u \in AllUrls : emitted[u] = <<"CRAWLING", "ERROR">>

\* C4: at every moment crawled = 2xx + 3xx + 4xx + 5xx + the number of urls
\* whose fetch finally failed with a transport error or a timeout.
\* _count_http_status counts nothing for a status outside 200..599, so a page
\* answering with status 999 is counted as crawled and in no other counter.
C4_CounterConservation ==
    stats.total_crawled =
        stats.total_2xx + stats.total_3xx + stats.total_4xx + stats.total_5xx
        + Cardinality(failed)

FoundByLink == {u \in DOMAIN results : first_found[u].how \in {"within", "beyond"}}

FoundBeyond == {u \in AllUrls : first_found[u].how = "beyond"}

\* C6: a url first found on a page at a depth d with d + 1 > max_depth has a
\* result with status MAX_DEPTH for good; it is never put into the queue, never
\* gets a task, is never fetched or emitted, and crawled counts only the
\* results with a final status.
C6_MaxDepthNeverFetched ==
    /\ \A u \in FoundBeyond :
          /\ u \in DOMAIN results
          /\ results[u].status = "MAX_DEPTH"
          /\ u \in seen
          /\ enq_count[u] = 0
          /\ QueuedAt(u) = {} /\ TasksOf(u) = {}
          /\ fetch_calls[u] = 0
          /\ emitted[u] = <<>>
    /\ stats.total_crawled = Cardinality(UNION {WithStatus(s) : s \in Terminal})

\* the crawl is over and a url found beyond the depth limit, linked from two
\* pages, is still MAX_DEPTH
C6_Witness ==
    /\ main.pc = "done"
    /\ ~cancelled
    /\ \E u \in FoundBeyond : Len(results[u].referring_pages) >= 2

Disallowed == {u \in DOMAIN results : ~is_allowed(rules, u) /\ results[u].status # "MAX_DEPTH"}

\* C7: with robots enabled, the result of a dequeued url that is_allowed
\* rejects is SKIPPED with the message "robots.txt disallowed", counted once in
\* skipped, emitted once, never in a slot, never fetched, not counted as
\* crawled; only such urls are SKIPPED, and none is with robots disabled.
C7_RobotsSkipped ==
    /\ cfg.respect_robots =>
          \A u \in Disallowed :
              /\ results[u].status = "SKIPPED"
              /\ results[u].error_message = "robots.txt disallowed"
              /\ emitted[u] = <<"SKIPPED">>
              /\ fetch_calls[u] = 0
              /\ \A t \in TasksOf(u) : tasks[t].pc = "done"
    /\ WithStatus("SKIPPED") = IF cfg.respect_robots THEN Disallowed ELSE {}
    /\ stats.total_skipped = Cardinality(WithStatus("SKIPPED"))
    /\ stats.total_crawled = Cardinality({u \in AllUrls : Len(emitted[u]) = 2})
    /\ semaphore + Cardinality(Holders) = IF main.pc \in {"idle", "robots"} THEN 0
                                          ELSE cfg.concurrency

\* the crawl is over: one url was skipped and another was crawled
C7_Witness ==
    /\ main.pc = "done"
    /\ WithStatus("SKIPPED") # {}
    /\ \E u \in WithStatus("OK") : results[u].depth = 1

NoRepeatedSource(list) ==
    \A i, j \in 1..Len(list) : list[i].url = list[j].url => i = j

\* C8: the referring_pages of every result, however it was created and in
\* whatever order the pages were crawled, has at most 50 entries, and no two of
\* them have the same source url.
C8_ReferrerCap ==
    \A u \in DOMAIN results :
        /\ Len(results[u].referring_pages) <= 50
        /\ NoRepeatedSource(results[u].referring_pages)

\* results with 50 referring pages after more than 50 pages linked to them: one
\* filled from the pending referrers, one recorded as MAX_DEPTH, one crawled
\* before the pages linking to it
C8_Witness ==
    \E u \in DOMAIN results :
        /\ Len(results[u].referring_pages) = 50
        /\ Cardinality(WithStatus("OK")) > 52
        /\ main.pc = "done"
        /\ results[u].status = "OK"
        /\ first_found[u].how = "within"

Started == {tasks[t].url : t \in {o \in TaskIds : tasks[o].pc # "new"}}
Phantoms == {u \in seen : enq_count[u] = 0}

\* C9 as claimed: the urls with a result are the urls ever enqueued and the
\* urls recorded as MAX_DEPTH, a PENDING result existing from the enqueue on.
C9_ResultsFromEnqueue ==
    DOMAIN results = Enqueued \cup Phantoms

\* C9: the urls with a result are the urls whose task has started and the urls
\* recorded as MAX_DEPTH; the former were all enqueued, and a url still in the
\* queue, or whose task has not run yet, has no result.
C9_ResultsFromTaskStart ==
    /\ DOMAIN results = Started \cup Phantoms
    /\ Started \subseteq Enqueued
    /\ \A u \in Phantoms : results[u].status = "MAX_DEPTH"
    /\ \A u \in Enqueued \ Started : u \notin DOMAIN results /\ u \in seen

\* two results exist, one of them MAX_DEPTH, while an enqueued url waits
C9_Witness ==
    /\ queue # <<>>
    /\ Cardinality(DOMAIN results) >= 2
    /\ Phantoms # {}

\* C10: the discovered counter is the size of the seen-set.
C10_DiscoveredIsSeen ==
    stats.total_discovered = Cardinality(seen)

\* the crawl is over, the seen-set holds enqueued urls and a MAX_DEPTH phantom
C10_Witness ==
    /\ main.pc = "done"
    /\ Cardinality(seen) >= 3
    /\ Phantoms # {}
    /\ Enqueued # {}

Fetched == {u \in AllUrls : fetch_calls[u] > 0}

\* C11 as claimed: at the end of a crawl the number of urls passed to fetch is
\* the size of the seen-set, and both are discovered minus the number of
\* MAX_DEPTH results (here for the crawls that were not cancelled).
C11_FetchedIsSeen ==
    main.pc = "done" /\ ~cancelled =>
        /\ Cardinality(Fetched) = Cardinality(seen)
        /\ Cardinality(seen) = stats.total_discovered - Cardinality(WithStatus("MAX_DEPTH"))

\* C11: the urls passed to fetch are urls of the seen-set that were enqueued,
\* each at most max_retries + 1 times; at the end of a crawl that was not
\* cancelled they are the seen-set without the MAX_DEPTH and the SKIPPED
\* results, so their number is discovered minus the numbers of those.
C11_FetchedIsSeenLessUnfetched ==
    /\ Fetched \subseteq Enqueued
    /\ Fetched \subseteq seen \ WithStatus("MAX_DEPTH")
    /\ \A u \in AllUrls : fetch_calls[u] <= cfg.max_retries + 1
    /\ main.pc = "done" /\ ~cancelled =>
          /\ Fetched = seen \ (WithStatus("MAX_DEPTH") \cup WithStatus("SKIPPED"))
          /\ Cardinality(Fetched) =
                 stats.total_discovered - Cardinality(WithStatus("MAX_DEPTH"))
                                        - Cardinality(WithStatus("SKIPPED"))

\* a crawl ended, not cancelled, with fetched urls, a MAX_DEPTH result and a
\* SKIPPED one
C11_Witness ==
    /\ main.pc = "done" /\ ~cancelled
    /\ Cardinality(Fetched) >= 2
    /\ WithStatus("MAX_DEPTH") # {}
    /\ WithStatus("SKIPPED") # {}

\* C12: whatever the concurrency and the order in which fetches complete, the
\* depth recorded for a url is at most the length of every link path to it the
\* crawl traverses: at most 1 + the depth of every page found linking to it.
\* With two tasks in flight a page at depth 1 that answers late links to a url
\* that a page at depth 2 has already put at depth 3.
C12_BfsMinimalDepth ==
    \A u \in DOMAIN results :
        \A i \in 1..Len(results[u].referring_pages) :
            LET page == results[u].referring_pages[i].url
            IN  page \in DOMAIN results =>
                    results[u].depth <= results[page].depth + 1

----------------------------------------------------------------------------
(* Scheduling: the event loop runs every callback that is ready, every fetch
   attempt ends (with a response, an error or its timeout) and every sleep
   ends. Calling crawl(), add_seed_urls() and cancel() is up to the caller. *)

Progress ==
    \/ \E reply \in RobotsReplies : RobotsLoaded(reply)
    \/ MainLoop
    \/ MainDrain
    \/ \E t \in 1..Len(tasks) : TaskAcquire(t)
    \/ \E t \in 1..Len(tasks) : \E reply \in ReplyChoices(tasks[t].url) : TaskFetchDone(t, reply)
    \/ \E t \in 1..Len(tasks) : TaskWake(t)

\* the crawls of the sites that differ in links, answers, robots.txt and
\* sitemap
FairInit == Init /\ site.pages \in {"links", "status"}

FairSpec == FairInit /\ [][Next]_vars /\ WF_vars(Progress)

Running == main.pc \in {"robots", "wait", "sleep", "drain"}
Returned == main.pc = "done"

\* C13: whatever fetch attempts fail, and when the load of robots.txt fails,
\* crawl() returns; a url whose attempts all failed has a result with status
\* ERROR, emitted as such after max_retries + 1 attempts, and its task ended.
C13_FailuresNeverRaise ==
    /\ [](\A u \in failed :
            /\ u \in DOMAIN results
            /\ results[u].status = "ERROR"
            /\ results[u].http_status_code < 400
            /\ fetch_calls[u] = cfg.max_retries + 1
            /\ emitted[u] = <<"CRAWLING", "ERROR">>
            /\ \A t \in TasksOf(u) : tasks[t].pc = "done")
    /\ (Running ~> Returned)

\* crawl() has returned after every attempt of two urls failed, retries included
C13_Witness ==
    /\ Returned
    /\ ~cancelled
    /\ cfg.max_retries >= 1
    /\ Cardinality(failed) >= 2

\* C14: once cancel() was called during a crawl, crawl() returns, and it
\* returns only when every task it started has ended on its own: no task is
\* left in a fetch attempt or a backoff sleep, no result is left CRAWLING, and
\* all slots are free.
C14_CancelDrains ==
    /\ (cancelled /\ Running ~> Returned)
    /\ [](Returned =>
            /\ \A t \in TaskIds : tasks[t].pc = "done"
            /\ active_tasks = {}
            /\ WithStatus("CRAWLING") = {}
            /\ \A u \in AllUrls : Len(emitted[u]) = 1 => emitted[u] = <<"SKIPPED">>
            /\ semaphore = cfg.concurrency)

\* after cancel() the scheduler has left its loop and waits for a task that
\* is in the backoff sleep before its retry, while another task has ended
C14_Witness ==
    /\ cancelled
    /\ main.pc = "drain"
    /\ \E t \in TaskIds \ main.waiting : tasks[t].depth = 1
    /\ \E t \in main.waiting : tasks[t].pc = "sleep"

\* C15: once the cancel flag is set no url leaves the queue and no task is
\* created, and a task that has not entered its slot yet ends without a slot,
\* without a fetch and without setting CRAWLING: its result stays PENDING and
\* is not emitted (a url robots.txt disallows is still marked SKIPPED, before
\* the slot).
C15_NoStartAfterCancel ==
    [][cancelled =>
         /\ Len(tasks') = Len(tasks)
         /\ Len(queue') >= Len(queue)
         /\ SubSeq(queue', 1, Len(queue)) = queue
         /\ \A t \in TaskIds :
               tasks[t].pc \in {"new", "sem"} /\ tasks'[t] # tasks[t] =>
                   LET u == tasks[t].url
                   IN  /\ tasks'[t].pc = "done"
                       /\ semaphore' = semaphore
                       /\ fetch_calls'[u] = 0
                       /\ results'[u].status =
                              IF robots_skips(u) THEN "SKIPPED" ELSE "PENDING"
                       /\ emitted'[u] =
                              IF robots_skips(u) THEN <<"SKIPPED">> ELSE <<>>]_vars

\* crawl() has returned after a cancel: a url is still queued, and a task that
\* was created before the cancel and ran after it left its result PENDING
C15_Witness ==
    /\ cancelled
    /\ Returned
    /\ queue # <<>>
    /\ \E t \in TaskIds :
          /\ tasks[t].pc = "done"
          /\ results[tasks[t].url].status = "PENDING"
          /\ emitted[tasks[t].url] = <<>>

\* the urls whose fetch returned in this step, and the growth of a counter
ClassifiedNow ==
    {u \in DOMAIN results : /\ results[u].status = "CRAWLING"
                            /\ results'[u].status \in Terminal
                            /\ u \notin failed'}
Grown(counter) == stats'[counter] - stats[counter]

\* C16: a result whose fetch returned is classified by the first rule that
\* applies (redirect_url off the start host: REDIRECT_EXTERNAL; redirect_url
\* set: REDIRECT; status >= 400: ERROR; else OK), and exactly one HTTP counter
\* grows by one for it: 3xx for a redirect, else the one of its status, errors
\* growing with 4xx and 5xx only.
\* For a status outside 200..599 (999 here) no counter grows.
C16_ClassifiedAndCountedOnce ==
    [][\A u \in ClassifiedNow :
          LET r == results'[u]
              class == r.http_status_code \div 100
          IN  /\ r.status =
                    IF r.redirect_url # NoUrl
                    THEN IF Lower(r.redirect_url.netloc) # allowed_domain
                         THEN "REDIRECT_EXTERNAL" ELSE "REDIRECT"
                    ELSE IF r.http_status_code >= 400 THEN "ERROR" ELSE "OK"
              /\ Grown("total_2xx") + Grown("total_3xx")
                   + Grown("total_4xx") + Grown("total_5xx") = 1
              /\ r.redirect_url # NoUrl => Grown("total_3xx") = 1
              /\ r.redirect_url = NoUrl /\ class = 2 => Grown("total_2xx") = 1
              /\ r.redirect_url = NoUrl /\ class = 3 => Grown("total_3xx") = 1
              /\ r.redirect_url = NoUrl /\ class = 4 => Grown("total_4xx") = 1
              /\ r.redirect_url = NoUrl /\ class = 5 => Grown("total_5xx") = 1
              /\ Grown("total_errors") = Grown("total_4xx") + Grown("total_5xx")
              /\ Grown("total_crawled") = 1]_vars

\* the result of u shows a redirect off the start host or a content type
\* that is not text/html
NotParsed(r) ==
    \/ r.redirect_url # NoUrl /\ Lower(r.redirect_url.netloc) # allowed_domain
    \/ ~is_html(r.content_type)

\* C17: a page whose fetch was redirected off the start host, or whose content
\* type is not text/html, has no links and has_form false: links_found is 0
\* and nothing is enqueued, recorded as MAX_DEPTH or added as a referrer.
\* has_form is never assigned for such a page (reading it raises), and in
\* render mode the content type is not looked at.
C17_NoLinksOffHostOrNotHtml ==
    [][\A u \in ClassifiedNow :
          NotParsed(results'[u]) =>
              /\ results'[u].has_form = "false"
              /\ results'[u].links_found = 0
              /\ queue' = queue
              /\ seen' = seen
              /\ pending_referrers' = pending_referrers
              /\ DOMAIN results' = DOMAIN results
              /\ \A v \in DOMAIN results \ {u} : results'[v] = results[v]]_vars

\* C18: a url whose path ends with an extension of SKIP_EXTENSIONS, wherever
\* it is found, is never fetched, never in the seen-set, has no result and is
\* not counted as discovered.
\* The MAX_DEPTH branch of the link loop has no extension test: a link to
\* /c.PDF on a page at the depth limit is recorded and counted.
C18_SkippedExtensionNeverCounted ==
    /\ \A u \in AllUrls :
          has_skip_extension(u) =>
              /\ fetch_calls[u] = 0
              /\ enq_count[u] = 0
              /\ u \notin seen
              /\ u \notin DOMAIN results
    /\ stats.total_discovered = Cardinality({u \in seen : ~has_skip_extension(u)})

\* crawl() has run up to its first await: the start url and the seeds are enqueued
SeedsEnqueued == main.pc \notin {"idle", "robots"}
SameHost(urls) == {i \in 1..Len(urls) : Lower(urls[i].netloc) = Lower(start_url.netloc)}
SeedAt(i) == full_normalize(seed_urls[i])
\* the seeds crawl() finds already seen: the start url, or an earlier seed
SeenBefore(i) ==
    \/ SeedAt(i) = full_normalize(start_url)
    \/ \E j \in 1..(i - 1) : SeedAt(j) = SeedAt(i)

\* every queue entry, task and result of u has this depth and parent
PlacedAt(u, depth, parent) ==
    /\ \A i \in QueuedAt(u) : queue[i].depth = depth /\ queue[i].parent = parent
    /\ \A t \in TasksOf(u) : tasks[t].depth = depth /\ tasks[t].parent = parent
    /\ u \in DOMAIN results =>
           results[u].depth = depth /\ results[u].parent_url = parent

\* C19 as claimed: once crawl() has enqueued the start url, every registered
\* seed whose canonical form was not yet in the seen-set is enqueued exactly
\* once, at depth 1 with the start url as parent.
C19_UnseenSeedsEnqueued ==
    SeedsEnqueued =>
        \A i \in 1..Len(seed_urls) :
            ~SeenBefore(i) =>
                enq_count[SeedAt(i)] = 1 /\ PlacedAt(SeedAt(i), 1, start_url)

\* C19: add_seed_urls registers the given urls of the start host (compared
\* without case), in their order, and returns their number; crawl() enqueues
\* the start url at depth 0 and then each registered seed once, at depth 1
\* with the start url as parent, unless its canonical form is already seen or
\* ends with a skipped extension: those seeds are dropped.
C19_SeedsRegisteredAndEnqueued ==
    /\ [][seed_urls' # seed_urls =>
            /\ add_seed_urls(site.sitemap).accepted = Cardinality(SameHost(site.sitemap))
            /\ Len(seed_urls') = Len(seed_urls) + Cardinality(SameHost(site.sitemap))
            /\ \A i \in SameHost(site.sitemap) :
                   \E j \in 1..Len(seed_urls') : seed_urls'[j] = site.sitemap[i]
            /\ \A j \in 1..Len(seed_urls') : Lower(seed_urls'[j].netloc) = allowed_domain]_vars
    /\ [](SeedsEnqueued =>
            /\ enq_count[full_normalize(start_url)] = 1
            /\ PlacedAt(full_normalize(start_url), 0, NoUrl)
            /\ \A i \in 1..Len(seed_urls) :
                  IF has_skip_extension(SeedAt(i))
                  THEN enq_count[SeedAt(i)] = 0
                  ELSE /\ enq_count[SeedAt(i)] = 1
                       /\ ~SeenBefore(i) => PlacedAt(SeedAt(i), 1, start_url))

\* the crawl is over: of three registered seeds one was crawled at depth 1, one
\* was the start url again and one ended with a skipped extension
C19_Witness ==
    /\ Returned /\ ~cancelled
    /\ Len(seed_urls) = 3
    /\ \E i, j, k \in 1..Len(seed_urls) :
          /\ ~SeenBefore(i) /\ ~has_skip_extension(SeedAt(i))
          /\ SeedAt(i) \in DOMAIN results /\ results[SeedAt(i)].status = "OK"
          /\ SeenBefore(j)
          /\ has_skip_extension(SeedAt(k))

Matching(rs, path) == {i \in 1..Len(rs) : IsPrefix(rs[i].path, path)}
Longest(rs, path) ==
    {i \in Matching(rs, path) :
        \A j \in Matching(rs, path) : Len(rs[j].path) <= Len(rs[i].path)}
FirstOf(S) == CHOOSE i \in S : \A j \in S : i <= j

\* C20: is_allowed(url) returns the flag of the longest rule whose path is a
\* prefix of the url's path (the first one in the file when the same path is
\* listed twice), true when no rule matches and true for every url when there
\* are no rules; the rules are empty after a request for robots.txt that
\* raised or returned another status than 200.
C20_LongestRuleDecides ==
    /\ [](\A u \in AllUrls :
            is_allowed(rules, u) =
                IF Matching(rules, url_path(u)) = {} THEN TRUE
                ELSE rules[FirstOf(Longest(rules, url_path(u)))].allow)
    /\ [][\A reply \in RobotsReplies :
            RobotsLoaded(reply) /\ (reply.raised \/ reply.status_code # 200) =>
                rules' = <<>> /\ \A u \in AllUrls : is_allowed(rules', u)]_vars
    /\ [][\A reply \in RobotsReplies :
            RobotsLoaded(reply) /\ ~reply.raised /\ reply.status_code = 200 =>
                rules' = site.robots]_vars

\* the crawl is over under rules that were loaded: a url was crawled because a
\* longer Allow rule overrides a Disallow rule that matches it too, and
\* another was skipped by that Disallow rule
C20_Witness ==
    /\ Returned /\ ~cancelled /\ cfg.respect_robots /\ rules # <<>>
    /\ \E u, v \in DOMAIN results :
          /\ Cardinality(Matching(rules, url_path(u))) > 1
          /\ \E i \in Matching(rules, url_path(u)) : ~rules[i].allow
          /\ rules[FirstOf(Longest(rules, url_path(u)))].allow
          /\ results[u].status = "OK"
          /\ Matching(rules, url_path(v)) # {}
          /\ results[v].status = "SKIPPED"

SameOrigin(u) == u.scheme = start_url.scheme /\ u.netloc = start_url.netloc

\* the urls the crawler holds anywhere: seen-set, queue, results (with their
\* pending referrers) and the urls of the tasks, which are the urls fetched
Held ==
    seen \cup DOMAIN results \cup DOMAIN pending_referrers
         \cup {queue[i].url : i \in 1..Len(queue)}
         \cup {tasks[t].url : t \in TaskIds}
         \cup {u \in AllUrls : fetch_calls[u] > 0 \/ enq_count[u] > 0}

\* C21: every url of the seen-set, the queue and the results, and every url
\* fetched, has the scheme and the host of the normalized start url; every
\* registered seed is on the start host; two held urls never differ in their
\* scheme alone, so http://h/a and https://h/a share one result.
C21_SingleOrigin ==
    /\ \A u \in Held : SameOrigin(u)
    /\ \A i \in 1..Len(seed_urls) : Lower(seed_urls[i].netloc) = start_url.netloc
    /\ \A u, v \in Held :
          u.netloc = v.netloc /\ u.path = v.path /\ u.query = v.query => u = v

\* the crawl is over: a seed given with http and an upper-case host was crawled
\* under the https url that a page links to as well, and nothing else was
\* recorded for that path
C21_Witness ==
    /\ Returned /\ ~cancelled
    /\ \E i \in 1..Len(seed_urls) :
          /\ seed_urls[i].scheme = "http"
          /\ seed_urls[i] \notin DOMAIN results
          /\ full_normalize(seed_urls[i]) \in DOMAIN results
          /\ results[full_normalize(seed_urls[i])].status = "OK"
          /\ Len(results[full_normalize(seed_urls[i])].referring_pages) > 0
          /\ fetch_calls[full_normalize(seed_urls[i])] = 1

\* the urls as the site gives them: links, sitemap entries and the start url
RawUrls ==
    {a.url : a \in {A_root, A_a, A_a2, A_b, A_pdf, A_ext, A_c, A_d,
                    A_semi, A_params, A_twice, A_query}}
    \cup SeqRange(site.sitemap)
    \cup {start_url}

\* the given urls that the crawl has normalized and holds
Met == {u \in RawUrls : full_normalize(u) \in seen}

Idempotent(u) ==
    /\ normalize_url(normalize_url(u)) = normalize_url(u)
    /\ full_normalize(full_normalize(u)) = full_normalize(u)

\* C22: normalization is idempotent, normalize(normalize(u)) = normalize(u),
\* for the plain and for the full normalization: for every url the crawl was
\* given and holds in its seen-set, and so every url of the seen-set is its
\* own normal form.
C22_NormalizeIdempotent ==
    /\ \A u \in Met : Idempotent(u)
    /\ \A u \in seen : normalize_url(u) = u /\ full_normalize(u) = u

----------------------------------------------------------------------------
(* The sitemap writer (playwright_sitemap_generator/models/sitemap_writer.py). *)
(* A list of results is held as a sequence of runs: a run stands for count  *)
(* results in a row that differ in their url only, the urls being the pages *)
(* number first, first + 1, ... of the site.  A path is a sequence of       *)
(* tokens.                                                                  *)

MAX_URLS_PER_SITEMAP == 50000
SITEMAP_NS == "http://www.sitemaps.org/schemas/sitemap/0.9"

Run(first, count, status, content_type, last_modified, depth) ==
    [first |-> first, count |-> count, status |-> status,
     content_type |-> content_type, last_modified |-> last_modified,
     depth |-> depth]

Min(a, b) == IF a < b THEN a ELSE b
Max(a, b) == IF a > b THEN a ELSE b

\* len() of a list held as runs
RECURSIVE Count(_)
Count(rs) == IF rs = <<>> THEN 0 ELSE Head(rs).count + Count(Tail(rs))

\* the elements number a..b (counted from 1) of a list held as runs
Slice(rs, a, b) ==
    LET start(k) == Count(SubSeq(rs, 1, k - 1)) + 1
        lo(k) == Max(a, start(k))
        hi(k) == Min(b, start(k) + rs[k].count - 1)
        cut == [k \in 1..Len(rs) |->
                   [rs[k] EXCEPT !.first = @ + (lo(k) - start(k)),
                                 !.count = hi(k) - lo(k) + 1]]
    IN  SelectSeq(cut, LAMBDA r : r.count > 0)

\* CrawlResult.is_successful counting every status but the failures
is_successful_lax(r) == r.status \notin {"ERROR", "TIMEOUT"}

\* CrawlResult.is_successful
is_successful(r) == r.status \in {"OK", "REDIRECT"}

\* SitemapWriter._is_html
writer_is_html(r) ==
    LET ct == Lower(r.content_type)
    IN  is_html(ct) \/ ct = ""

\* SitemapWriter._estimate_priority, in tenths
estimate_priority(depth) == Max(1, 10 - depth * 2)

\* os.path.basename
basename(path) ==
    LET slashes == {i \in 1..Len(path) : path[i] = "/"}
        last == IF slashes = {} THEN 0 ELSE CHOOSE i \in slashes : \A j \in slashes : j <= i
    IN  SubSeq(path, last + 1, Len(path))

\* os.path.splitext: the extension is the last dotted part of the basename,
\* unless the basename starts with it
splitext(path) ==
    LET n == Len(path)
    IN  IF Len(basename(path)) > 1 /\ path[n] \in {".xml", ".gz", ".map"}
        THEN [base |-> SubSeq(path, 1, n - 1), ext |-> <<path[n]>>]
        ELSE [base |-> path, ext |-> <<>>]

SetFile(fs, path, doc) ==
    [p \in DOMAIN fs \cup {path} |-> IF p = path THEN doc ELSE fs[p]]

\* the document _write_single builds: one url element per result
urlset(urls) ==
    [root |-> "urlset", xmlns |-> SITEMAP_NS,
     entries |-> [k \in 1..Len(urls) |->
                     [first |-> urls[k].first, count |-> urls[k].count,
                      lastmod |-> urls[k].last_modified,
                      priority |-> estimate_priority(urls[k].depth)]]]

\* SitemapWriter._write_single
write_single(fs, urls, path) == SetFile(fs, path, urlset(urls))

\* the slices urls[i:i + MAX_URLS_PER_SITEMAP] of _write_index, one element
\* more in each
RECURSIVE chunks_wide(_, _)
chunks_wide(urls, i) ==
    IF i >= Count(urls) THEN <<>>
    ELSE <<Slice(urls, i + 1, Min(i + MAX_URLS_PER_SITEMAP + 1, Count(urls)))>>
         \o chunks_wide(urls, i + MAX_URLS_PER_SITEMAP + 1)

\* the slices urls[i:i + MAX_URLS_PER_SITEMAP] of _write_index
RECURSIVE chunks(_, _)
chunks(urls, i) ==
    IF i >= Count(urls) THEN <<>>
    ELSE <<Slice(urls, i + 1, Min(i + MAX_URLS_PER_SITEMAP, Count(urls)))>>
         \o chunks(urls, i + MAX_URLS_PER_SITEMAP)

RECURSIVE write_parts(_, _, _, _)
write_parts(fs, cs, paths, idx) ==
    IF idx > Len(cs) THEN fs
    ELSE write_parts(write_single(fs, cs[idx], paths[idx]), cs, paths, idx + 1)

\* SitemapWriter._write_index
write_index(fs, urls, path) ==
    LET sp == splitext(path)
        cs == chunks(urls, 0)
        written_files == [idx \in 1..Len(cs) |->
                             sp.base \o <<"-", Digits[idx + 1]>> \o sp.ext]
        index == [root |-> "sitemapindex", xmlns |-> SITEMAP_NS,
                  entries |-> [k \in 1..Len(cs) |-> [loc |-> basename(written_files[k])]]]
    IN  [files |-> SetFile(write_parts(fs, cs, written_files, 1), path, index),
         written |-> <<path>> \o written_files]

\* the filter of write(): successful results served as HTML
filtered(rs) == SelectSeq(rs, LAMBDA r : is_successful(r) /\ writer_is_html(r))

\* SitemapWriter.write
write(fs, rs, output_path) ==
    LET urls == filtered(rs)
    IN  IF urls = <<>> THEN [files |-> fs, written |-> <<>>]
        ELSE IF Count(urls) <= MAX_URLS_PER_SITEMAP
        THEN [files |-> write_single(fs, urls, output_path), written |-> <<output_path>>]
        ELSE write_index(fs, urls, output_path)

\* the app saves the sitemap of its results
WriteSitemap(output_path) ==
    /\ written = NotWritten
    /\ loader.pc # "loading"
    /\ LET w == write(files, writer_results, output_path)
       IN  files' = w.files /\ written' = w.written
    /\ UNCHANGED <<crawler_vars, writer_results, reader_vars, clipboard, report>>

----------------------------------------------------------------------------
(* models/sitemap_reader.py *)

\* a loader that goes one level deeper
MaxSitemapDepthDeep == 3 + 1

\* the deepest call of _load_sitemap_recursive that still sends a request
MaxSitemapDepth == 3

\* scheme and host of the site, as discover_sitemap builds it from base_url
Origin == <<"https://a.test">>

COMMON_SITEMAP_PATHS ==
    << <<"/", "sitemap", ".xml">>,
       <<"/", "sitemap_index", ".xml">>,
       <<"/", "sitemap", "/", "sitemap", ".xml">>,
       <<"/", "sitemapindex", ".xml">>,
       <<"/", "sitemap", "/", "index", ".xml">> >>

\* the address of a written file once it is published in the root of the site
Served(path) == Origin \o <<"/">> \o basename(path)

\* httpx sends a request only to an address with a scheme and a host
is_absolute(loc) == loc # <<>> /\ Head(loc) = "https://a.test"

\* str.strip on the text of a loc element
RECURSIVE strip(_)
strip(text) ==
    IF text = <<>> THEN text
    ELSE IF Head(text) = " " THEN strip(Tail(text))
    ELSE IF text[Len(text)] = " " THEN strip(SubSeq(text, 1, Len(text) - 1))
    ELSE text

\* what the server answers for one address: the status and content type of
\* a HEAD request, the status of a GET request (status 0: the request
\* raised), whether it serves byte ranges, and the body
Answer(head_status, content_type, status, ranges, body) ==
    [head_status |-> head_status, content_type |-> content_type,
     status |-> status, ranges |-> ranges, body |-> body]

Html == [root |-> "html", xmlns |-> "", entries |-> <<>>]
Garbage == [root |-> "garbage", xmlns |-> "", entries |-> <<>>]

NotFound == Answer(404, "text/html", 404, FALSE, Html)
Unsupported == Answer(0, "", 0, FALSE, Garbage)

\* a sitemap index document
SitemapIndex(xmlns, locs) ==
    [root |-> "sitemapindex", xmlns |-> xmlns,
     entries |-> [k \in 1..Len(locs) |-> [loc |-> locs[k]]]]

\* the answer of the site to a request for loc: a document of the web, a
\* published file, or 404
response(w, fs, loc) ==
    IF ~is_absolute(loc) THEN Unsupported
    ELSE IF loc \in DOMAIN w THEN w[loc]
    ELSE IF \E p \in DOMAIN fs : Served(p) = loc
    THEN Answer(200, "application/xml", 200, TRUE,
              fs[CHOOSE p \in DOMAIN fs : Served(p) = loc])
    ELSE NotFound

\* "xml" in content_type or "text" in content_type
xml_or_text(content_type) ==
    content_type \in {"application/xml", "text/xml", "text/html", "text/plain"}

\* which of the marks <?xml, <urlset, <sitemapindex the first 512
\* characters of a body hold
text512(body) ==
    IF body.root \in {"urlset", "sitemapindex"}
    THEN {"<?xml", IF body.root = "urlset" THEN "<urlset" ELSE "<sitemapindex"}
    ELSE {}

\* the status of a GET request with a Range header
ranged_status(r) == IF r.status = 200 /\ r.ranges THEN 206 ELSE r.status

Request(method, url) == [method |-> method, url |-> url]

\* a test that sends the GET request after every HEAD answer that does not
\* accept the candidate
is_valid_sitemap_any(w, fs, url) ==
    LET r == response(w, fs, url)
    IN  IF r.head_status = 200 /\ xml_or_text(r.content_type)
        THEN [valid |-> TRUE, requests |-> <<Request("HEAD", url)>>]
        ELSE [valid |-> /\ ranged_status(r) \in {200, 206}
                        /\ text512(r.body) # {},
              requests |-> <<Request("HEAD", url), Request("GET", url)>>]

\* _is_valid_sitemap, with the requests it sent
is_valid_sitemap(w, fs, url) ==
    LET r == response(w, fs, url)
    IN  IF r.head_status = 200
        THEN IF xml_or_text(r.content_type)
             THEN [valid |-> TRUE, requests |-> <<Request("HEAD", url)>>]
             ELSE [valid |-> /\ ranged_status(r) \in {200, 206}
                             /\ text512(r.body) \cap {"<?xml", "<urlset", "<sitemapindex"} # {},
                   requests |-> <<Request("HEAD", url), Request("GET", url)>>]
        ELSE [valid |-> FALSE, requests |-> <<Request("HEAD", url)>>]

\* the loops of discover_sitemap: the first valid candidate, or none (<<>>)
RECURSIVE first_valid(_, _, _, _)
first_valid(w, fs, candidates, requests) ==
    IF candidates = <<>> THEN [done |-> TRUE, sitemap_url |-> <<>>, requests |-> requests]
    ELSE LET v == is_valid_sitemap(w, fs, Head(candidates))
         IN  IF v.valid
             THEN [done |-> TRUE, sitemap_url |-> Head(candidates),
                   requests |-> requests \o v.requests]
             ELSE first_valid(w, fs, Tail(candidates), requests \o v.requests)

\* discover_sitemap
discover_sitemap(w, fs, robots_sitemaps) ==
    first_valid(w, fs,
                robots_sitemaps \o [i \in 1..Len(COMMON_SITEMAP_PATHS) |->
                                       Origin \o COMMON_SITEMAP_PATHS[i]],
                <<>>)

\* the app looks for the official sitemap before the crawl
DiscoverSitemap(robots_sitemaps) ==
    /\ ~discovery.done
    /\ discovery' = discover_sitemap(web, files, robots_sitemaps)
    /\ official_sitemap_urls' = {}
    /\ UNCHANGED <<crawler_vars, writer_vars, web, loader, sitemap_urls, fetches,
                   clipboard, report>>

\* the sub sitemaps of a parsed document: sitemap/loc with the namespace of
\* sitemaps, else without a namespace
sub_sitemaps(doc) ==
    IF doc.root = "sitemapindex" /\ doc.xmlns \in {SITEMAP_NS, ""}
    THEN doc.entries ELSE <<>>

\* the url entries of a parsed document: url/loc, with or without namespace
url_entries(doc) ==
    IF doc.root = "urlset" /\ doc.xmlns \in {SITEMAP_NS, ""}
    THEN doc.entries ELSE <<>>

\* the addresses the loop over sub_sitemaps calls, in order
sub_urls(doc) ==
    LET with_text == SelectSeq(sub_sitemaps(doc), LAMBDA e : e.loc # <<>>)
    IN  [k \in 1..Len(with_text) |-> strip(with_text[k].loc)]

Frame(depth, todo) == [depth |-> depth, todo |-> todo]

\* load_sitemap_urls: an empty set and the call for the root at depth 0
LoadSitemap ==
    /\ discovery.done /\ discovery.sitemap_url # <<>>
    /\ loader.pc = "idle"
    /\ loader' = [pc |-> "loading", stack |-> <<Frame(-1, <<discovery.sitemap_url>>)>>]
    /\ sitemap_urls' = {}
    /\ UNCHANGED <<crawler_vars, writer_vars, web, discovery, fetches,
                   official_sitemap_urls, clipboard, report>>

\* _load_sitemap_recursive up to its next call or return: the innermost
\* frame makes its next call (which returns at once, adds the urls of a
\* urlset, or goes on with the entries of an index) or returns
LoadStep ==
    /\ loader.pc = "loading"
    /\ LET n == Len(loader.stack)
           top == loader.stack[n]
           rest == SubSeq(loader.stack, 1, n - 1)
       IN  IF top.todo = <<>>
           THEN /\ loader' = IF rest = <<>> THEN [pc |-> "returned", stack |-> <<>>]
                             ELSE [loader EXCEPT !.stack = rest]
                /\ official_sitemap_urls' = IF rest = <<>> THEN sitemap_urls
                                            ELSE official_sitemap_urls
                /\ UNCHANGED <<sitemap_urls, fetches>>
           ELSE LET sitemap_url == Head(top.todo)
                    depth == top.depth + 1
                    caller == Append(rest, Frame(top.depth, Tail(top.todo)))
                    r == response(web, files, sitemap_url)
                IN  /\ UNCHANGED official_sitemap_urls
                    /\ IF depth > MaxSitemapDepth
                       THEN /\ loader' = [loader EXCEPT !.stack = caller]
                            /\ UNCHANGED <<sitemap_urls, fetches>>
                       ELSE /\ fetches' = fetches \cup {[url |-> sitemap_url, depth |-> depth]}
                            /\ IF r.status # 200 \/ r.body.root = "garbage"
                               THEN /\ loader' = [loader EXCEPT !.stack = caller]
                                    /\ UNCHANGED sitemap_urls
                               ELSE IF sub_sitemaps(r.body) # <<>>
                               THEN /\ loader' = [loader EXCEPT !.stack =
                                                     Append(caller, Frame(depth, sub_urls(r.body)))]
                                    /\ UNCHANGED sitemap_urls
                               ELSE /\ loader' = [loader EXCEPT !.stack = caller]
                                    /\ sitemap_urls' = sitemap_urls \cup
                                           { [first |-> url_entries(r.body)[k].first,
                                              count |-> url_entries(r.body)[k].count] :
                                                 k \in 1..Len(url_entries(r.body)) }
    /\ UNCHANGED <<crawler_vars, writer_vars, web, discovery, clipboard, report>>

\* PageStatus of the writer's package
PageStatuses ==
    {"PENDING", "CRAWLING", "OK", "REDIRECT", "ERROR", "TIMEOUT", "SKIPPED", "MAX_DEPTH"}

ContentTypes == {"", "text/html", "Text/HTML", "application/pdf"}

\* the lists of up to MaxResults results of every status and content type
RECURSIVE SmallLists(_)
SmallLists(n) ==
    IF n = 0 THEN {<<>>}
    ELSE SmallLists(n - 1)
         \cup { Append(l, Run(n, 1, st, ct, IF n = 1 THEN "" ELSE "2024-01-01", n - 1)) :
                    l \in {m \in SmallLists(n - 1) : Len(m) = n - 1},
                    st \in PageStatuses, ct \in ContentTypes }

\* a list of which f results pass the filter of the writer
BigList(f) ==
    << Run(1, 1, "OK", "text/html", "2024-01-01", 0),
       Run(2, 1, "ERROR", "text/html", "", 1),
       Run(3, f - 2, "OK", "", "", 1),
       Run(f + 1, 1, "MAX_DEPTH", "", "", 2),
       Run(f + 2, 1, "REDIRECT", "Text/HTML", "", 2) >>

\* the lengths around the limit of one file and of each further part
BigSizes ==
    { k * MAX_URLS_PER_SITEMAP + d : k \in 1..MaxParts, d \in {0, 1} }
    \cup { MAX_URLS_PER_SITEMAP - 1 }

WriterInputs == SmallLists(MaxResults) \cup { BigList(f) : f \in BigSizes }

OutputPaths ==
    { <<"sitemap", ".xml">>, <<"out", "/", "site", ".map", ".xml">>,
      <<"sitemap">>, <<"out.d", "/", ".xml">> }

\* the addresses of the sitemap documents of a site
LocA == Origin \o COMMON_SITEMAP_PATHS[1]
LocB == Origin \o COMMON_SITEMAP_PATHS[2]
LocC == Origin \o COMMON_SITEMAP_PATHS[3]
LocX == Origin \o <<"/", "map">>

Xml(body) == Answer(200, "application/xml", 200, TRUE, body)

\* the documents a site serves as sitemaps: indexes that name each other,
\* two url sets, a document with a foreign namespace, and failures
SitemapPages ==
    { Xml(SitemapIndex(SITEMAP_NS, <<LocA>>)),
      Xml(SitemapIndex(SITEMAP_NS, <<LocB>>)),
      Xml(SitemapIndex("", <<LocC>>)),
      Xml(SitemapIndex(SITEMAP_NS, <<LocA, LocB>>)),
      Xml(SitemapIndex(SITEMAP_NS, <<<<" ">> \o LocB \o <<" ">>, <<>>, LocC>>)),
      Xml(SitemapIndex(SITEMAP_NS, <<LocC, <<"sitemap", ".xml">>, LocA>>)),
      Xml(urlset(<<Run(1, 1, "OK", "text/html", "", 0)>>)),
      Xml([urlset(<<Run(2, 2, "OK", "text/html", "", 1)>>) EXCEPT !.xmlns = ""]),
      Xml([urlset(<<Run(4, 1, "OK", "text/html", "", 1)>>) EXCEPT !.xmlns = "other"]),
      Xml(Garbage),
      Answer(200, "application/xml", 0, FALSE, Garbage),
      NotFound }

\* sites with any of these at two addresses and a url set at a third
LoadWebs ==
    { [l \in {LocA, LocB, LocC} |->
          IF l = LocA THEN a
          ELSE IF l = LocB THEN b
          ELSE Xml(urlset(<<Run(5, 1, "OK", "text/html", "", 2)>>))] :
      a \in SitemapPages, b \in SitemapPages }

\* what a server can answer for a sitemap candidate
CandidatePages ==
    { Answer(h, ct, s, rg, b) :
        h \in {200, 204, 404, 0},
        ct \in {"application/xml", "text/html", "application/octet-stream", ""},
        s \in {200, 404, 0},
        rg \in BOOLEAN,
        b \in {urlset(<<Run(1, 1, "OK", "text/html", "", 0)>>), Html} }

\* sites with one candidate at a common path and a sitemap named by robots.txt
DiscoverWebs ==
    { [l \in {LocA, LocX} |->
          IF l = LocA THEN p
          ELSE Xml(urlset(<<Run(2, 1, "OK", "text/html", "", 0)>>))] :
      p \in CandidatePages }

\* the Sitemap lines of robots.txt handed to discover_sitemap
RobotsSitemaps ==
    { <<>>, <<LocX>>, << <<"sitemap", ".xml">> >> }
    \cup { <<Served(p)>> : p \in OutputPaths }

\* the app with a list of results and nothing written yet, or with no
\* results on a site that publishes sitemap documents
SitemapInit ==
    /\ cfg = Config(MaxDepthCfg, 1, FALSE, 0)
    /\ site = Site("links", <<>>, <<>>)
    /\ Constructed
    /\ \/ writer_results \in WriterInputs /\ web = <<>>
       \/ writer_results = <<>> /\ web \in LoadWebs \cup DiscoverWebs
    /\ files = <<>>
    /\ written = NotWritten
    /\ ReaderIdle

SitemapNext ==
    \/ \E output_path \in OutputPaths : WriteSitemap(output_path)
    \/ \E robots_sitemaps \in RobotsSitemaps : DiscoverSitemap(robots_sitemaps)
    \/ LoadSitemap
    \/ LoadStep

SitemapSpec == SitemapInit /\ [][SitemapNext]_vars

----------------------------------------------------------------------------
(* Properties of the sitemap writer *)

Ceil(a, b) == (a + b - 1) \div b

\* the element at position p (counted from 1) of a list held as runs
At(rs, p) ==
    LET start(k) == Count(SubSeq(rs, 1, k - 1)) + 1
        k == CHOOSE j \in 1..Len(rs) : start(j) <= p /\ p < start(j) + rs[j].count
    IN  rs[k].first + (p - start(k))

\* the url entries of the files ps, one file after the other
RECURSIVE EntriesOf(_, _)
EntriesOf(fs, ps) ==
    IF ps = <<>> THEN <<>> ELSE fs[Head(ps)].entries \o EntriesOf(fs, Tail(ps))

\* the entries are the urls of the list, each once and in the order of the list
SameUrlsInOrder(entries, urls) ==
    /\ Count(entries) = Count(urls)
    /\ \A p \in 1..Count(urls) : At(entries, p) = At(urls, p)

\* what write(output_path) owes for the list rs, given the files fs it left
\* and the list wr it returned
Chunked(fs, wr, rs, output_path) ==
    LET urls == filtered(rs)
        F == Count(urls)
        n == Ceil(F, MAX_URLS_PER_SITEMAP)
        sp == splitext(output_path)
    IN  /\ F = 0 => wr = <<>> /\ fs = <<>>
        /\ F \in 1..MAX_URLS_PER_SITEMAP =>
              /\ wr = <<output_path>>
              /\ DOMAIN fs = {output_path}
              /\ fs[output_path].root = "urlset"
              /\ SameUrlsInOrder(fs[output_path].entries, urls)
        /\ F > MAX_URLS_PER_SITEMAP =>
              /\ Len(wr) = n + 1
              /\ wr[1] = output_path
              /\ DOMAIN fs = SeqRange(wr)
              /\ Cardinality(DOMAIN fs) = n + 1
              /\ fs[output_path].root = "sitemapindex"
              /\ Len(fs[output_path].entries) = n
              /\ \A k \in 1..n :
                    /\ wr[k + 1] = sp.base \o <<"-", Digits[k + 1]>> \o sp.ext
                    /\ fs[wr[k + 1]].root = "urlset"
                    /\ Count(fs[wr[k + 1]].entries) \in 1..MAX_URLS_PER_SITEMAP
                    /\ fs[output_path].entries[k].loc = basename(wr[k + 1])
              /\ SameUrlsInOrder(EntriesOf(fs, Tail(wr)), urls)

\* C23: for F results passing the filter, write(path) writes nothing and
\* returns the empty list when F = 0; one urlset file when 1 <= F <= 50,000;
\* and when F > 50,000 ceil(F / 50000) part files base-1.ext, base-2.ext, ...
\* and one index file, every part holding at most 50,000 entries, the parts in
\* order holding every filtered result once and in input order, and the index
\* listing the basename of every part.
C23_ChunkedFiles ==
    [][\A output_path \in OutputPaths :
          WriteSitemap(output_path) =>
              Chunked(files', written', writer_results, output_path)]_vars

\* a list one longer than MaxParts full parts was written: the last part
\* holds a single entry
C23_Witness ==
    /\ written # NotWritten
    /\ Count(filtered(writer_results)) = MaxParts * MAX_URLS_PER_SITEMAP + 1
    /\ Len(written) = MaxParts + 2
    /\ Count(files[written[Len(written)]].entries) = 1
    /\ Count(files[written[2]].entries) = MAX_URLS_PER_SITEMAP

\* the page numbers with a url entry in some written file
InFiles(n) ==
    \E p \in DOMAIN files :
        /\ files[p].root = "urlset"
        /\ \E k \in 1..Len(files[p].entries) :
              n \in files[p].entries[k].first..
                    (files[p].entries[k].first + files[p].entries[k].count - 1)

RunsOf(rs) == {rs[k] : k \in 1..Len(rs)}
PagesOf(r) == r.first..(r.first + r.count - 1)

----------------------------------------------------------------------------
(* Properties of the sitemap reader *)

\* the page numbers a set or list of runs stands for
UrlsOf(runs) == UNION { r.first..(r.first + r.count - 1) : r \in runs }

\* the first written file was published, found and loaded again
ReadBack ==
    /\ written # NotWritten /\ written # <<>>
    /\ discovery.sitemap_url = Served(written[1])
    /\ loader.pc = "returned"

\* C25: writing the urls of the results and loading the first written file
\* again with the sitemap reader gives the same set of urls, for a single
\* urlset file and for an index file with part files.
C25_RoundTrip ==
    ReadBack => UrlsOf(official_sitemap_urls) = UrlsOf(RunsOf(filtered(writer_results)))

\* the round trip of a single urlset file
C25_SingleFileRoundTrip ==
    ReadBack /\ Len(written) = 1 =>
        UrlsOf(official_sitemap_urls) = UrlsOf(RunsOf(filtered(writer_results)))

\* an index file was written and read back: no url was loaded, because the
\* loc entries of the index are file names and a request for one raises
C25_IndexReadsNothing ==
    ReadBack /\ Len(written) > 1 =>
        /\ official_sitemap_urls = {}
        /\ \A f \in fetches : f.depth = 1 => ~is_absolute(f.url)

\* the sites that publish sitemap documents. The event loop goes on with
\* the coroutine of the loader: every request of the client ends, with an
\* answer or after the timeout of 30 seconds
FairSitemapInit == SitemapInit /\ web # <<>>

FairSitemapSpec == FairSitemapInit /\ [][SitemapNext]_vars /\ WF_vars(LoadStep)

\* the urlset documents the loader was answered with
ReachedUrlsets ==
    { response(web, files, f.url).body : 
        f \in { g \in fetches : /\ response(web, files, g.url).status = 200
                                /\ response(web, files, g.url).body.root = "urlset" } }

\* the loc entries of a urlset document
LocEntries(doc) ==
    IF doc.xmlns = "other" THEN {}
    ELSE { [first |-> doc.entries[k].first, count |-> doc.entries[k].count] :
              k \in 1..Len(doc.entries) }

\* no request is for a document more than 3 index levels below the root
ShallowFetches == \A f \in fetches : f.depth \in 0..3

\* what load_sitemap_urls returned is the union of the loc entries of the
\* urlset documents it reached
ReturnsUnion ==
    loader.pc = "returned" =>
        official_sitemap_urls = UNION { LocEntries(doc) : doc \in ReachedUrlsets }

\* C26: loading a sitemap sends no request for a document nested more than
\* 3 index levels below the root sitemap, every load that was started
\* returns, also when indexes name themselves or each other, and it returns
\* the union of the loc entries of the urlset documents it reached.
C26_LoadTerminates ==
    /\ [](ShallowFetches /\ ReturnsUnion)
    /\ (loader.pc = "loading") ~> (loader.pc = "returned")

\* an index that names itself and a urlset was loaded: the index was
\* requested at the depths 0 to 3, and the urls of the urlset were returned
C26_Witness ==
    /\ loader.pc = "returned"
    /\ LocA \in DOMAIN web
    /\ \E k \in 1..Len(sub_sitemaps(web[LocA].body)) :
          sub_sitemaps(web[LocA].body)[k].loc = LocA
    /\ \A d \in 0..3 : [url |-> LocA, depth |-> d] \in fetches
    /\ official_sitemap_urls # {}

\* the candidates of the site that discover_sitemap tested
Tested == { q.url : q \in { discovery.requests[k] : k \in 1..Len(discovery.requests) } }
              \cap DOMAIN web

\* a GET request was sent for the candidate
GetSent(url) ==
    \E k \in 1..Len(discovery.requests) : discovery.requests[k] = Request("GET", url)

\* the content type of the answer is one of XML or of text
XmlIsh(r) == r.content_type \in {"application/xml", "text/xml", "text/html", "text/plain"}

\* the first 512 bytes of a ranged GET hold <?xml, <urlset or <sitemapindex
GetAccepts(r) == r.status = 200 /\ r.body.root \in {"urlset", "sitemapindex"}

\* C27 as claimed: a candidate is valid if and only if its HEAD request is
\* answered with 2xx and an XML-ish content type or its ranged GET holds one
\* of the marks, and the GET is sent for every candidate the HEAD answer
\* does not accept, whatever the status of that answer.
C27_GetDecidesAfterAnyHead ==
    discovery.done =>
        \A url \in Tested :
            LET r == web[url]
                headAccepts == r.head_status \in 200..299 /\ XmlIsh(r)
            IN  /\ url = discovery.sitemap_url <=> headAccepts \/ GetAccepts(r)
                /\ ~headAccepts => GetSent(url)

\* C27: a candidate is valid if and only if its HEAD request is answered
\* with status 200 and either the content type is XML-ish or the ranged GET
\* of its first 512 bytes holds <?xml, <urlset or <sitemapindex; the GET is
\* sent exactly for the candidates whose HEAD request is answered with 200
\* and another content type, and a candidate whose HEAD request fails or is
\* answered with another status is not valid.
C27_GetDecidesAfterHead200 ==
    discovery.done =>
        \A url \in Tested :
            LET r == web[url]
            IN  /\ url = discovery.sitemap_url <=>
                       r.head_status = 200 /\ (XmlIsh(r) \/ GetAccepts(r))
                /\ GetSent(url) <=> r.head_status = 200 /\ ~XmlIsh(r)

\* a candidate answered HEAD with 200 and no XML-ish content type: the GET
\* was sent and made it the sitemap of the site
C27_Witness ==
    /\ discovery.done
    /\ discovery.sitemap_url = LocA
    /\ web[LocA].head_status = 200 /\ ~XmlIsh(web[LocA])
    /\ discovery.requests = <<Request("HEAD", LocA), Request("GET", LocA)>>

----------------------------------------------------------------------------
(* Properties of the sitemap diff *)

\* the result urls with HTTP status 200, and the urls of the published sitemap
Crawled200 == {u \in DOMAIN results : results[u].http_status_code = 200}
Published == {site.sitemap[i] : i \in 1..Len(site.sitemap)}

\* text s is before text t: at the first position where they differ s has
\* the smaller character, or s ends there
Before(s, t) ==
    \E k \in 1..Len(t) :
        /\ \A i \in 1..(k - 1) : i <= Len(s) /\ s[i] = t[i]
        /\ k > Len(s) \/ s[k] < t[k]

\* the list holds exactly the urls of the set, each before the next in the
\* order of their texts (so each once)
SortedListOf(list, S) ==
    /\ {list[i] : i \in 1..Len(list)} = S
    /\ \A i \in 1..(Len(list) - 1) : Before(url_text(list[i]), url_text(list[i + 1]))

\* C28: the diff lists exactly the urls of C \ S as crawled but not in the
\* sitemap and exactly those of S \ C as in the sitemap but not crawled,
\* where C are the result urls with HTTP status 200 and S the published
\* sitemap, each list sorted lexicographically; the lists are disjoint and
\* no url of both C and S is in either.
C28_DiffLists ==
    clipboard.copied =>
        /\ SortedListOf(clipboard.not_in_sitemap, Crawled200 \ Published)
        /\ SortedListOf(clipboard.not_crawled, Published \ Crawled200)
        /\ \A i \in 1..Len(clipboard.not_in_sitemap), j \in 1..Len(clipboard.not_crawled) :
              clipboard.not_in_sitemap[i] # clipboard.not_crawled[j]
        /\ \A u \in Crawled200 \cap Published :
              /\ \A i \in 1..Len(clipboard.not_in_sitemap) : clipboard.not_in_sitemap[i] # u
              /\ \A j \in 1..Len(clipboard.not_crawled) : clipboard.not_crawled[j] # u

\* a diff with several urls in each list, a url that is crawled and
\* published, and a result without status 200 that is in neither list
C28_Witness ==
    /\ clipboard.copied
    /\ Len(clipboard.not_in_sitemap) >= 2
    /\ Len(clipboard.not_crawled) >= 1
    /\ Crawled200 \cap Published # {}
    /\ \E u \in DOMAIN results : u \notin Crawled200 \cup Published

----------------------------------------------------------------------------
(* Properties of the result callback *)

StatusOf(rs, u) == IF u \in DOMAIN rs THEN rs[u].status ELSE "none"

Delivered(u) == {emitted[u][k] : k \in 1..Len(emitted[u])}

\* C29 as claimed: every result crawl() returned whose status is not PENDING,
\* a result created as MAX_DEPTH included, was handed to on_result with
\* that status.
C29_EveryResultDelivered ==
    main.pc = "done" =>
        \A u \in DOMAIN results :
            results[u].status # "PENDING" => results[u].status \in Delivered(u)

\* a step that takes the result of u to SKIPPED, to CRAWLING or to a
\* terminal status hands it to on_result with the new status; a step that
\* only creates the result, as PENDING or as MAX_DEPTH, hands nothing over
TransitionsDelivered ==
    \A u \in AllUrls :
        IF /\ StatusOf(results', u) # StatusOf(results, u)
           /\ StatusOf(results', u) \notin {"PENDING", "MAX_DEPTH"}
        THEN emitted'[u] = Append(emitted[u], StatusOf(results', u))
        ELSE emitted'[u] = emitted[u]

\* C29: on_result is called for each status transition of each result (to
\* SKIPPED, to CRAWLING, to a terminal status) and not for a result created
\* as MAX_DEPTH, so every result crawl() returned whose status is neither
\* PENDING nor MAX_DEPTH was last handed to on_result with that status, and
\* no MAX_DEPTH result was ever handed over.
C29_TransitionsDelivered ==
    /\ [][TransitionsDelivered]_vars
    /\ [](main.pc = "done" =>
            \A u \in DOMAIN results :
                IF results[u].status \in {"PENDING", "MAX_DEPTH"}
                THEN emitted[u] = <<>>
                ELSE /\ emitted[u] # <<>>
                     /\ emitted[u][Len(emitted[u])] = results[u].status)

\* crawl() returned a result that was crawled, one that robots.txt skipped
\* and one beyond the depth that on_result never saw
C29_Witness ==
    /\ main.pc = "done"
    /\ \E u \in DOMAIN results : emitted[u] = <<"CRAWLING", "OK">>
    /\ \E u \in DOMAIN results : emitted[u] = <<"SKIPPED">>
    /\ \E u \in DOMAIN results : results[u].status = "MAX_DEPTH" /\ emitted[u] = <<>>

----------------------------------------------------------------------------
\* the fetch of task t's url, answered by reply, raised an exception
AttemptRaised(t, reply) ==
    IF cfg.render THEN fetch_with_playwright(results[tasks[t].url], reply).raised
    ELSE fetch_with_httpx(results[tasks[t].url], reply).raised

\* one step of the retry loop of task t, as the claim has it
RetryStep(t) ==
    LET u == tasks[t].url
        k == fetch_calls[u]
    IN  \* a further attempt starts only out of the backoff that followed
        \* failed attempt k <= max_retries, and that backoff was 2 * k seconds
        /\ (k >= 1 /\ fetch_calls'[u] # k) =>
              /\ fetch_calls'[u] = k + 1
              /\ tasks[t].pc = "sleep"
              /\ tasks[t].wait = 2 * k
              /\ k <= cfg.max_retries
              /\ tasks'[t].pc = "fetch"
        \* a backoff starts only when attempt k <= max_retries raised
        /\ (tasks'[t].pc = "sleep" /\ tasks[t].pc # "sleep") =>
              /\ tasks[t].pc = "fetch"
              /\ k <= cfg.max_retries
              /\ tasks'[t].wait = 2 * k
              /\ \E reply \in ReplyChoices(u) :
                     AttemptRaised(t, reply) /\ TaskFetchDone(t, reply)
        \* an attempt that returned a response, whatever its status, and the
        \* last failed attempt end the task with neither backoff nor attempt
        /\ \A reply \in ReplyChoices(u) :
               (/\ TaskFetchDone(t, reply)
                /\ (~AttemptRaised(t, reply) \/ k = cfg.max_retries + 1)) =>
                   /\ tasks'[t].pc = "done"
                   /\ tasks'[t].wait = 0
                   /\ fetch_calls'[u] = k
        \* a task that ended stays ended
        /\ tasks[t].pc = "done" => tasks'[t] = tasks[t]

----------------------------------------------------------------------------
\* the step in which the last fetch attempt of u raised, without a word on
\* the error message
FinalFailureOf(u) ==
    /\ results'[u].status = "ERROR"
    /\ stats'.total_errors = stats.total_errors + 1
    /\ stats'.total_crawled = stats.total_crawled + 1
    /\ stats'.total_2xx = stats.total_2xx
    /\ stats'.total_3xx = stats.total_3xx
    /\ stats'.total_4xx = stats.total_4xx
    /\ stats'.total_5xx = stats.total_5xx
    /\ queue' = queue
    /\ seen' = seen
    /\ stats'.total_discovered = stats.total_discovered
    /\ DOMAIN results' = DOMAIN results
    /\ emitted[u] = <<"CRAWLING">>
    /\ emitted'[u] = <<"CRAWLING", "ERROR">>

\* C31: when all max_retries + 1 attempts of a url failed, its result gets
\* status ERROR with a non-empty error_message, errors and crawled go up by
\* exactly one, no 2xx/3xx/4xx/5xx counter changes, no link is enqueued for
\* it, and it is emitted exactly once after its CRAWLING emission.
C31_FinalFailure ==
    /\ [][\A u \in AllUrls :
            (u \in failed' /\ u \notin failed) =>
                /\ fetch_calls[u] = cfg.max_retries + 1
                /\ FinalFailureOf(u)
                /\ results'[u].error_message # ""]_vars
    /\ [](\A u \in failed :
            /\ results[u].status = "ERROR"
            /\ results[u].error_message # ""
            /\ emitted[u] = <<"CRAWLING", "ERROR">>)

\* the same without the demand on the message: the counters, the queue and
\* the emissions are as the claim has them
C31_FinalFailureCounted ==
    /\ [][\A u \in AllUrls :
            (u \in failed' /\ u \notin failed) =>
                /\ fetch_calls[u] = cfg.max_retries + 1
                /\ FinalFailureOf(u)]_vars
    /\ [](\A u \in failed :
            /\ results[u].status = "ERROR"
            /\ emitted[u] = <<"CRAWLING", "ERROR">>)

\* a url given up after two attempts that raised with an empty text
C31_EmptyMessage ==
    \E u \in failed :
        /\ fetch_calls[u] = 2
        /\ results[u].status = "ERROR"
        /\ results[u].error_message = ""

----------------------------------------------------------------------------
\* every url that was enqueued left the queue into a task and reached SKIPPED
\* or a terminal status
AllEnqueuedSettled ==
    /\ queue = <<>>
    /\ \A u \in Enqueued :
           /\ QueuedAt(u) = {}
           /\ TasksOf(u) # {}
           /\ \A t \in TasksOf(u) : tasks[t].pc = "done"
           /\ u \in DOMAIN results
           /\ results[u].status \in Terminal \cup {"SKIPPED"}

\* the scheduler loop of crawl() is left in this step
LoopExits ==
    /\ main.pc \in {"robots", "idle", "wait", "sleep"}
    /\ main'.pc \in {"drain", "done"}

\* C32: with every fetch attempt ending and cancel() never called, crawl()
\* returns, and when it returns every url that was enqueued has been taken
\* out of the queue into a task and has reached SKIPPED or a terminal status;
\* the scheduler loop is left only with an empty queue and no task in flight.
C32_CrawlReturnsSettled ==
    /\ Running ~> (cancelled \/ Returned)
    /\ []((Returned /\ ~cancelled) => AllEnqueuedSettled)
    /\ [][(LoopExits /\ ~cancelled) =>
             /\ queue' = <<>>
             /\ active_tasks' = {}
             /\ \A t \in 1..Len(tasks') : tasks'[t].pc = "done"
             /\ main'.pc = "done"]_vars

\* a crawl with two slots that returned without a cancel after three or more
\* urls were enqueued and crawled by as many tasks
C32_Witness ==
    /\ Returned
    /\ ~cancelled
    /\ Cardinality(Enqueued) >= 3
    /\ Len(tasks) >= 3
    /\ cfg.concurrency >= 2
    /\ AllEnqueuedSettled

----------------------------------------------------------------------------
\* the referrers kept for u while it had no result
PendingOf(u) == IF u \in DOMAIN pending_referrers THEN pending_referrers[u] ELSE <<>>

\* the page on which u was first found as a link, if it was found on a page
FirstReferrerListed(u) ==
    first_found[u].how \in {"within", "beyond"} =>
        HasSource(results[u].referring_pages, first_found[u].page)

\* the results created as PENDING at the start of a task take over the
\* pending referrers of their url
TaskResultsTakePending ==
    /\ [][\A u \in DOMAIN results' \ DOMAIN results :
              results'[u].status # "MAX_DEPTH" =>
                  /\ u \notin DOMAIN pending_referrers'
                  /\ \A i \in 1..Len(PendingOf(u)) :
                         HasSource(results'[u].referring_pages, PendingOf(u)[i].url)]_vars
    /\ [](\A u \in DOMAIN results :
              results[u].status # "MAX_DEPTH" =>
                  /\ u \notin DOMAIN pending_referrers
                  /\ FirstReferrerListed(u))

\* C33: whenever a result is created for a url, as a PENDING result at task
\* start or as a MAX_DEPTH result, the pending referrers of the url are moved
\* into the result's referring_pages and removed from the pending map; no url
\* with a result has pending referrers, and the page on which a url was first
\* found is among the referring_pages of its result.
C33_PendingReferrersConsumed ==
    /\ [][\A u \in DOMAIN results' \ DOMAIN results :
              /\ u \notin DOMAIN pending_referrers'
              /\ \A i \in 1..Len(PendingOf(u)) :
                     HasSource(results'[u].referring_pages, PendingOf(u)[i].url)]_vars
    /\ [](\A u \in DOMAIN results :
              /\ u \notin DOMAIN pending_referrers
              /\ FirstReferrerListed(u))

\* a url recorded as MAX_DEPTH that still has pending referrers and whose
\* result lists no referring page
C33_PhantomKeepsPending ==
    \E u \in WithStatus("MAX_DEPTH") :
        /\ u \in DOMAIN pending_referrers
        /\ pending_referrers[u] # <<>>
        /\ results[u].referring_pages = <<>>
        /\ main.pc = "done"

----------------------------------------------------------------------------
\* the tasks the scheduler created that have not finished
Unfinished == {t \in TaskIds : tasks[t].pc # "done"}

\* the tasks that have not reached "async with semaphore" yet
BeforeSlot == {t \in TaskIds : tasks[t].pc = "new"}

\* C34: the scheduler never has more than N unfinished tasks, so the
\* semaphore of size N never makes a task wait: a task that reaches it finds
\* a free slot, and no task is ever blocked on it.
C34_NoTaskWaitsForSlot ==
    /\ Cardinality(Unfinished) <= self_concurrency
    /\ \A t \in TaskIds : tasks[t].pc # "sem"
    /\ Cardinality(BeforeSlot) <= semaphore
    /\ main.pc \notin {"idle", "robots"} =>
           semaphore = self_concurrency - Cardinality(Holders)

\* as many unfinished tasks as the concurrency allows, two or more, one of
\* them in its slot and one about to take the last free slot
C34_Witness ==
    /\ self_concurrency >= 2
    /\ Cardinality(Unfinished) = self_concurrency
    /\ Holders # {}
    /\ BeforeSlot # {}
    /\ semaphore = Cardinality(BeforeSlot)

----------------------------------------------------------------------------
\* what a fetch writes into a result
FetchedData(r) ==
    <<r.http_status_code, r.content_type, r.redirect_url, r.has_form>>

\* a fetch attempt of task t ends with an exception in this step
AttemptFails(t) ==
    /\ tasks[t].pc = "fetch"
    /\ \/ tasks'[t].pc = "sleep"
       \/ tasks[t].url \in failed' \ failed

\* C35: a fetch attempt that fails, at the request, at the parsing of the
\* body or in the rendered page, leaves http_status_code, content_type,
\* redirect_url and has_form of the result as they were, so a url whose
\* attempts all failed ends with http_status_code 0 and no redirect_url.
C35_NoPartialDataOnFailure ==
    /\ [][\A t \in 1..Len(tasks) :
              AttemptFails(t) =>
                  FetchedData(results'[tasks[t].url]) = FetchedData(results[tasks[t].url])]_vars
    /\ [](\A u \in failed :
              /\ results[u].http_status_code = 0
              /\ results[u].redirect_url = NoUrl)

\* a url given up after attempts that raised while the links were extracted:
\* its result has status ERROR, http_status_code 200, a content type and the
\* url it was redirected to
C35_PartialData ==
    \E u \in failed :
        /\ results[u].status = "ERROR"
        /\ results[u].http_status_code = 200
        /\ results[u].content_type = "text/html"
        /\ results[u].redirect_url # NoUrl

----------------------------------------------------------------------------
\* C36: when crawl() has returned and cancel() was never called, the queue is
\* empty, no result is PENDING or CRAWLING, the results are exactly the urls
\* of the seen-set, and discovered = crawled + skipped + the number of
\* results with status MAX_DEPTH.
C36_ReturnedAccounts ==
    (Returned /\ ~cancelled) =>
        /\ queue = <<>>
        /\ WithStatus("PENDING") = {}
        /\ WithStatus("CRAWLING") = {}
        /\ DOMAIN results = seen
        /\ stats.total_discovered =
               stats.total_crawled + stats.total_skipped
               + Cardinality(WithStatus("MAX_DEPTH"))

\* a crawl that returned without a cancel and left crawled, skipped and
\* MAX_DEPTH results
C36_Witness ==
    /\ Returned
    /\ ~cancelled
    /\ stats.total_crawled >= 2
    /\ stats.total_skipped >= 1
    /\ WithStatus("MAX_DEPTH") # {}

----------------------------------------------------------------------------
\* the urls whose result reached CRAWLING
ReachedCrawling ==
    {u \in DOMAIN results : \E i \in 1..Len(emitted[u]) : emitted[u][i] = "CRAWLING"}

\* C37: no url is passed to fetch at a depth greater than max_depth: every
\* result that reached CRAWLING has depth <= max_depth, also when seed urls
\* were added, so with max_depth = 0 only the start url is fetched.
C37_FetchWithinDepth ==
    /\ \A u \in ReachedCrawling : results[u].depth <= cfg.max_depth
    /\ \A u \in Fetched : u \in ReachedCrawling
    /\ cfg.max_depth = 0 => Fetched \subseteq {start_url}

\* the same for the crawls without seed urls, where it holds
C37_FetchWithinDepthUnseeded ==
    seed_urls = <<>> =>
        /\ \A u \in ReachedCrawling : results[u].depth <= cfg.max_depth
        /\ \A u \in Fetched : u \in ReachedCrawling
        /\ cfg.max_depth = 0 => Fetched \subseteq {start_url}

\* a crawl with max_depth 0 that fetched a seed url at depth 1
C37_SeedFetchedBeyondDepth ==
    /\ cfg.max_depth = 0
    /\ \E u \in Fetched \ {start_url} :
           /\ results[u].depth = 1
           /\ first_found[u].how = "seed"

----------------------------------------------------------------------------
\* C38: once cancel() was called no task starts a fetch attempt, also not a
\* task that is in a fetch or in a backoff sleep of its retry loop at that
\* time, and a task that finishes afterwards adds nothing to the queue or to
\* the seen-set.
C38_NothingAfterCancel ==
    [][cancelled =>
          /\ fetch_calls' = fetch_calls
          /\ queue' = queue
          /\ seen' = seen]_vars

\* the part that holds: after the cancel no task makes its first attempt
C38_NoFirstAttemptAfterCancel ==
    [][cancelled =>
          \A u \in AllUrls : fetch_calls[u] = 0 => fetch_calls'[u] = 0]_vars

\* the cancel flag is set, crawl() gathers its tasks, one of them is in a
\* later attempt of its retry loop and the queue holds urls no one will take
C38_RetryingWhileCancelled ==
    /\ cancelled
    /\ \E t \in TaskIds : tasks[t].pc = "fetch" /\ tasks[t].attempt >= 1
    /\ queue # <<>>
    /\ main.pc = "drain"

----------------------------------------------------------------------------
\* C39: at every suspension point the errors counter is the number of results
\* with status ERROR, and that number is 4xx + 5xx + the number of urls whose
\* fetch finally failed.
C39_ErrorsAreErrorResults ==
    /\ stats.total_errors = Cardinality(WithStatus("ERROR"))
    /\ Cardinality(WithStatus("ERROR")) =
           stats.total_4xx + stats.total_5xx + Cardinality(failed)

\* the half that holds: no url is counted twice as an error
C39_ErrorsCountedOnce ==
    /\ stats.total_errors = stats.total_4xx + stats.total_5xx + Cardinality(failed)
    /\ stats.total_errors <= Cardinality(WithStatus("ERROR"))

\* a result with status ERROR for a page that answered with status 999, while
\* the errors counter is 0
C39_UncountedError ==
    /\ stats.total_errors = 0
    /\ \E u \in WithStatus("ERROR") :
           /\ results[u].http_status_code = 999
           /\ u \notin failed

----------------------------------------------------------------------------
\* C40: for a crawl that ran to completion, the counters in the summary of
\* the JSON error report (crawled, discovered, 2xx, 3xx, 4xx, 5xx, errors),
\* rebuilt from the final results, equal the counters of the crawler's
\* CrawlStats.
C40_ReportMatchesStats ==
    (report.written /\ ~cancelled) => report.summary = Summary(stats)

\* the part that holds: crawled and discovered of the report are the
\* crawler's
C40_ReportTotalsMatch ==
    (report.written /\ ~cancelled) =>
        /\ report.summary.total_crawled = stats.total_crawled
        /\ report.summary.total_discovered = stats.total_discovered

\* a report of a completed crawl that counts under 2xx a url whose fetch
\* finally failed after one attempt had stored its HTTP status
C40_FailedUrlCountedByStatus ==
    /\ report.written
    /\ ~cancelled
    /\ report.summary.total_2xx > stats.total_2xx
    /\ \E u \in failed : results[u].http_status_code \div 100 = 2

====
